---- MODULE Spec2Model ----
(***************************************************************************)
(* Model of the resume batch pipeline and its job store:                   *)
(*   services/storage_service.py  (init_db, create_job, delete, store)     *)
(*   services/assistants.py       (aggregation, stage runner, orchestrator)*)
(*   app.py                       (confirm step and batch loop)            *)
(*                                                                         *)
(* Python values are tagged records so that values of different Python     *)
(* types can be told apart and compared.  Texts (str) that are parsed or   *)
(* produced by a conversion are token sequences, see json_loads.           *)
(***************************************************************************)
EXTENDS Integers, Sequences, FiniteSets, TLC

VARIABLES
    db,        \* the SQLite file: tables, rows, schema of candidates
    ready,     \* ready[s]: the script run of session s has passed init_db
    last,      \* the last storage call: name, arguments, result, store before
    ui,        \* session_state of the session running the new-analysis flow
    psg,       \* the frame of process_single_resume_group in progress
    trace,     \* what the batch run did: stage calls, disposed results
    call       \* the frame of call_openai_assistant in progress

vars == <<db, ready, last, ui, psg, trace, call>>

----------------------------------------------------------------------------
(* Bounds of the model *)

MaxJobs == 2        \* job rows ever inserted (AUTOINCREMENT never reuses an id)
MaxCands == 2       \* candidate rows ever inserted by store_candidate_data
MaxGroups == 2      \* page groups of one batch

Sessions == {"s1", "s2"}

----------------------------------------------------------------------------
(* Python / JSON values *)

None == [t |-> "None"]
JNum(n) == [t |-> "num", n |-> n]
JStr(s) == [t |-> "str", s |-> s]
JBool(b) == [t |-> "bool", b |-> b]
JList(items) == [t |-> "list", items |-> items]
JDict(kv) == [t |-> "dict", kv |-> kv]
EmptyDict == JDict(<<>>)
EmptyList == JList(<<>>)

IsDict(v) == v.t = "dict"
IsNone(v) == v.t = "None"

\* Python truthiness (bool(v)) of a value.
Truthy(v) ==
    CASE v.t = "None" -> FALSE
      [] v.t = "num"  -> v.n # 0
      [] v.t = "str"  -> v.s # ""
      [] v.t = "bool" -> v.b
      [] v.t = "list" -> Len(v.items) > 0
      [] v.t = "dict" -> DOMAIN v.kv # {}
      [] v.t = "text" -> Len(v.toks) > 0
      [] OTHER -> TRUE

\* dict.get(key, default) on a value known to be a dict.
DictGet(d, key, default) ==
    IF key \in DOMAIN d.kv THEN d.kv[key] ELSE default

----------------------------------------------------------------------------
\* Texts.  A text that goes through strip / startswith / json.loads is a
\* sequence of tokens: whitespace, an opening json code fence, a bare code
\* fence, junk (any other characters), or the JSON serialisation of a value.

Text(toks) == [t |-> "text", toks |-> toks]
Doc(v) == [tok |-> "doc", doc |-> v]
Ws == [tok |-> "ws"]
\* FenceJson is the opening marker of a json code fence (three backticks and json),
\* Fence the bare marker (three backticks).
FenceJson == [tok |-> "fence_json"]
Fence == [tok |-> "fence"]
Junk == [tok |-> "junk"]

RECURSIVE lstrip(_)
lstrip(toks) ==
    IF Len(toks) > 0 /\ Head(toks).tok = "ws" THEN lstrip(Tail(toks)) ELSE toks

RECURSIVE rstrip(_)
rstrip(toks) ==
    IF Len(toks) > 0 /\ toks[Len(toks)].tok = "ws"
    THEN rstrip(SubSeq(toks, 1, Len(toks) - 1)) ELSE toks

\* str.strip()
strip(toks) == rstrip(lstrip(toks))

\* json.loads(s): [ok |-> TRUE, v |-> value] or [ok |-> FALSE] (JSONDecodeError).
\* Whitespace around the document is accepted, anything else is not.
json_loads(toks) ==
    LET s == strip(toks) IN
    IF Len(s) = 1 /\ s[1].tok = "doc" THEN [ok |-> TRUE, v |-> s[1].doc]
    ELSE [ok |-> FALSE]

\* json.dumps(v) of a JSON value (values from json.loads always serialise).
json_dumps(v) == Text(<<Doc(v)>>)

----------------------------------------------------------------------------
(* The store.  db is the database file:                                    *)
(*   jobsTable   whether table jobs exists                                 *)
(*   jobs        its rows                                                  *)
(*   jobSeq      sqlite_sequence of jobs (AUTOINCREMENT: largest id ever)  *)
(*   candSchema  "absent": no table candidates; "nofk": no foreign key on  *)
(*               job_id; "noaction": a foreign key without ON DELETE       *)
(*               CASCADE; "cascade": the canonical schema                  *)
(*   candCols    the columns of table candidates                           *)
(*   candidates  its rows, functions from candCols to values               *)
(*   candSeq     sqlite_sequence of candidates                             *)
(*   oldMigration  table candidates_old_migration, which exists only       *)
(*               inside the migration transaction of init_db               *)
(* Integer 0 stands for a NULL id: AUTOINCREMENT ids start at 1 and the    *)
(* code treats 0 and None alike (if not job_id).  None is SQL NULL in      *)
(* every other column.                                                     *)

CanonicalColumns ==
    {"id", "resume_page_range", "processing_timestamp", "job_description_used",
     "personal_information", "professional_summary", "work_experience",
     "education", "skills", "certifications", "score_percent", "score_reasoning",
     "matched_skills", "missing_skills", "raw_assistant1_json",
     "raw_assistant2_json", "job_id", "total_years_experience",
     "total_internship_duration", "overall_score_percent"}

\* Columns named by the INSERT of store_candidate_data (all but id).
InsertColumns == CanonicalColumns \ {"id"}

JobIds(d) == {j.job_id : j \in d.jobs}

SetMax(S) == IF S = {} THEN 0 ELSE CHOOSE m \in S : \A x \in S : x <= m

\* A foreign key checked against the ids ever issued, not the rows that exist.
never_issued(d, job_id) == job_id # 0 /\ job_id > d.jobSeq

\* A row violates the foreign key when its job_id is not NULL and names no job.
Dangling(d, job_id) == job_id # 0 /\ job_id \notin JobIds(d)

\* Whether the schema of candidates declares a foreign key on job_id.
HasFk(d) == d.candSchema \in {"noaction", "cascade"}

\* DELETE FROM jobs WHERE job_id <= ?: the older jobs go with the one named.
SqlDeleteJobsUpTo(d, job_id, fk_on) ==
    LET hit == {j \in d.jobs : j.job_id <= job_id}
        kids == IF d.candSchema = "absent" THEN {}
                ELSE {c \in d.candidates : c["job_id"] # 0 /\ c["job_id"] <= job_id}
    IN  IF ~d.jobsTable THEN [err |-> "OperationalError", rowcount |-> 0, db |-> d]
        ELSE IF hit = {} THEN [err |-> "", rowcount |-> 0, db |-> d]
        ELSE IF fk_on /\ d.candSchema = "noaction" /\ kids # {}
             THEN [err |-> "IntegrityError", rowcount |-> 0, db |-> d]
        ELSE IF fk_on /\ d.candSchema = "cascade"
             THEN [err |-> "", rowcount |-> Cardinality(hit),
                   db |-> [d EXCEPT !.jobs = @ \ hit, !.candidates = @ \ kids]]
        ELSE [err |-> "", rowcount |-> Cardinality(hit), db |-> [d EXCEPT !.jobs = @ \ hit]]

\* DELETE FROM jobs WHERE job_id = ? on a connection whose foreign_keys pragma
\* is fk_on.  [err, rowcount, db]; err is "" or the class of sqlite3 error.
SqlDeleteJob(d, job_id, fk_on) ==
    LET hit == {j \in d.jobs : j.job_id = job_id}
        kids == IF d.candSchema = "absent" THEN {}
                ELSE {c \in d.candidates : c["job_id"] = job_id}
    IN  IF ~d.jobsTable THEN [err |-> "OperationalError", rowcount |-> 0, db |-> d]
        ELSE IF hit = {} THEN [err |-> "", rowcount |-> 0, db |-> d]
        ELSE IF fk_on /\ d.candSchema = "noaction" /\ kids # {}
             THEN [err |-> "IntegrityError", rowcount |-> 0, db |-> d]
        ELSE IF fk_on /\ d.candSchema = "cascade"
             THEN [err |-> "", rowcount |-> 1,
                   db |-> [d EXCEPT !.jobs = @ \ hit, !.candidates = @ \ kids]]
        ELSE [err |-> "", rowcount |-> 1, db |-> [d EXCEPT !.jobs = @ \ hit]]

\* INSERT OR REPLACE INTO jobs: a row of the same name is overwritten.
SqlInsertOrReplaceJob(d, job_name, pdf_filename, job_desc_snippet) ==
    IF ~d.jobsTable THEN [err |-> "OperationalError", lastrowid |-> 0, db |-> d]
    ELSE LET id == d.jobSeq + 1 IN
         [err |-> "", lastrowid |-> id,
          db |-> [d EXCEPT !.jobSeq = id,
                           !.jobs = {j \in @ : j.job_name # job_name}
                                      \cup {[job_id |-> id, job_name |-> job_name,
                                             pdf_filename |-> pdf_filename,
                                             job_description_snippet |-> job_desc_snippet,
                                             created_at |-> id]}]]

\* INSERT INTO jobs (job_name, pdf_filename, job_description_snippet).
\* created_at is CURRENT_TIMESTAMP, modelled by the insertion number.
SqlInsertJob(d, job_name, pdf_filename, job_desc_snippet) ==
    IF ~d.jobsTable THEN [err |-> "OperationalError", lastrowid |-> 0, db |-> d]
    ELSE IF \E j \in d.jobs : j.job_name = job_name
         THEN [err |-> "IntegrityError", lastrowid |-> 0, db |-> d]
    ELSE LET id == d.jobSeq + 1 IN
         [err |-> "", lastrowid |-> id,
          db |-> [d EXCEPT !.jobSeq = id,
                           !.jobs = @ \cup {[job_id |-> id, job_name |-> job_name,
                                             pdf_filename |-> pdf_filename,
                                             job_description_snippet |-> job_desc_snippet,
                                             created_at |-> id]}]]

\* INSERT INTO candidates (InsertColumns) VALUES (params) on a connection whose
\* foreign_keys pragma is fk_on.  params is a function on InsertColumns.
SqlInsertCandidate(d, params, fk_on) ==
    IF d.candSchema = "absent" \/ ~(InsertColumns \subseteq d.candCols)
    THEN [err |-> "OperationalError", lastrowid |-> 0, db |-> d]
    ELSE IF fk_on /\ HasFk(d) /\ Dangling(d, params["job_id"])
         THEN [err |-> "IntegrityError", lastrowid |-> 0, db |-> d]
    ELSE LET id == d.candSeq + 1
             row == [c \in d.candCols |->
                        IF c = "id" THEN id
                        ELSE IF c \in InsertColumns THEN params[c] ELSE None]
         IN  [err |-> "", lastrowid |-> id,
              db |-> [d EXCEPT !.candSeq = id, !.candidates = @ \cup {row}]]

----------------------------------------------------------------------------
(* PRAGMA foreign_keys is connection-scoped and OFF on a new connection.   *)
(* Each operation opens its own connection; these are the values the       *)
(* pragma has on it when the operation's statements run.                   *)

init_db_foreign_keys == TRUE      \* init_db, line 28
pragma_skipped_on_delete == FALSE
delete_foreign_keys == TRUE       \* delete_job_and_candidates, line 229
pragma_skipped_on_store == FALSE
store_foreign_keys == TRUE        \* store_candidate_data, line 333

----------------------------------------------------------------------------
(* storage_service.init_db *)

MigrationFaults == {"none", "rename", "create", "copy", "drop"}

\* No table candidates_old_migration.
NoOldTable == [exists |-> FALSE, schema |-> "absent", cols |-> {}, rows |-> {}, seq |-> 0]

\* a. ALTER TABLE candidates RENAME TO candidates_old_migration (line 104).
sql_rename(d) ==
    IF d.oldMigration.exists THEN [err |-> "OperationalError", db |-> d]
    ELSE [err |-> "",
          db |-> [d EXCEPT !.oldMigration = [exists |-> TRUE, schema |-> d.candSchema,
                                             cols |-> d.candCols, rows |-> d.candidates,
                                             seq |-> d.candSeq],
                           !.candSchema = "absent", !.candCols = {},
                           !.candidates = {}, !.candSeq = 0]]

\* b. CREATE TABLE candidates with the canonical schema (line 108).
sql_create(d) ==
    [d EXCEPT !.candSchema = "cascade", !.candCols = CanonicalColumns]

\* c. INSERT INTO candidates (common) SELECT common FROM candidates_old_migration
\* (lines 117-126); the foreign key is enforced on the rows copied.
sql_copy(d) ==
    LET common_columns == d.oldMigration.cols \cap d.candCols
        copied == {[c \in d.candCols |->
                       IF c \in common_columns THEN r[c]
                       ELSE IF c \in {"id", "job_id"} THEN 0 ELSE None]
                   : r \in d.oldMigration.rows}
    IN  IF common_columns = {} THEN [err |-> "", db |-> d]
        ELSE IF init_db_foreign_keys /\ \E r \in copied : Dangling(d, r["job_id"])
        THEN [err |-> "IntegrityError", db |-> d]
        ELSE [err |-> "",
              db |-> [d EXCEPT !.candidates = copied,
                               !.candSeq = SetMax({r["id"] : r \in copied})]]

\* d. DROP TABLE candidates_old_migration (line 129).
sql_drop(d) == [d EXCEPT !.oldMigration = NoOldTable]

\* A failed migration that keeps what the statements before the error did.
keep_partial(before, now) == now

\* ROLLBACK (line 138): the database as it was at BEGIN TRANSACTION.
rollback(before, now) == before

\* The migration transaction (lines 92-146).  fault names the statement at
\* which the engine reports an error of its own ("none": no such error).
\* [ok, db]; not ok is the error re-raised at line 146 after the rollback.
migrate(d, fault) ==
    LET renamed == sql_rename(d)
        created == sql_create(renamed.db)
        copied == sql_copy(created)
        dropped == sql_drop(copied.db)
    IN  IF fault = "rename" \/ renamed.err # "" THEN [ok |-> FALSE, db |-> rollback(d, d)]
        ELSE IF fault = "create" THEN [ok |-> FALSE, db |-> rollback(d, renamed.db)]
        ELSE IF fault = "copy" \/ copied.err # "" THEN [ok |-> FALSE, db |-> rollback(d, created)]
        ELSE IF fault = "drop" THEN [ok |-> FALSE, db |-> rollback(d, copied.db)]
        ELSE [ok |-> TRUE, db |-> dropped]

\* A test that migrates every candidates table it finds.
migrates_existing_table(d) == d.candSchema # "absent"

\* Lines 76-89: needs_migration, true when the table exists and its job_id
\* foreign key is missing or is not ON DELETE CASCADE.
needs_migration(d) == d.candSchema # "absent" /\ d.candSchema # "cascade"

\* init_db(): [raised, migrated, db]; migrated tells whether the migration
\* branch of line 92 was entered.
init_db(d, fault) ==
    LET d1 == [d EXCEPT !.jobsTable = TRUE]
        candidates_table_exists == d1.candSchema # "absent"
    IN  IF needs_migration(d1)
        THEN LET m == migrate(d1, fault) IN [raised |-> ~m.ok, migrated |-> TRUE, db |-> m.db]
        ELSE IF ~candidates_table_exists
        THEN [raised |-> FALSE, migrated |-> FALSE,
              db |-> [d1 EXCEPT !.candSchema = "cascade",
                                !.candCols = CanonicalColumns,
                                !.candidates = {}]]
        ELSE [raised |-> FALSE, migrated |-> FALSE, db |-> d1]

----------------------------------------------------------------------------
(* storage_service: job management.  A returned id of 0 is None. *)

get_job_id_by_name(d, job_name) ==
    IF ~d.jobsTable THEN 0
    ELSE LET hit == {j \in d.jobs : j.job_name = job_name}
         IN  IF hit = {} THEN 0 ELSE (CHOOSE j \in hit : TRUE).job_id

\* create_job without the lookup of line 182: a duplicate name yields None.
create_job_without_lookup(d, job_name, pdf_filename, job_desc_snippet) ==
    LET r == SqlInsertJob(d, job_name, pdf_filename, job_desc_snippet)
    IN  IF r.err = "" THEN [ret |-> r.lastrowid, db |-> r.db] ELSE [ret |-> 0, db |-> d]

\* create_job(): [ret, db].
create_job(d, job_name, pdf_filename, job_desc_snippet) ==
    LET r == SqlInsertJob(d, job_name, pdf_filename, job_desc_snippet)
    IN  IF r.err = "" THEN [ret |-> r.lastrowid, db |-> r.db]
        ELSE IF r.err = "IntegrityError"
             THEN [ret |-> get_job_id_by_name(d, job_name), db |-> d]
        ELSE [ret |-> 0, db |-> d]

\* delete_job_and_candidates(): [ret, db].
\* A delete that reports success whenever the statement ran.
delete_ignoring_rowcount(d, job_id) ==
    IF job_id = 0 THEN [ret |-> FALSE, db |-> d]
    ELSE LET r == SqlDeleteJob(d, job_id, delete_foreign_keys)
         IN  IF r.err # "" THEN [ret |-> FALSE, db |-> d]
             ELSE [ret |-> TRUE, db |-> r.db]

delete_job_and_candidates(d, job_id) ==
    IF job_id = 0 THEN [ret |-> FALSE, db |-> d]
    ELSE LET r == SqlDeleteJob(d, job_id, delete_foreign_keys)
         IN  IF r.err # "" THEN [ret |-> FALSE, db |-> d]
             ELSE [ret |-> r.rowcount > 0, db |-> r.db]

----------------------------------------------------------------------------
(* storage_service.store_candidate_data *)

\* The strings float() accepts, with their values; float() of any other
\* string raises ValueError.
NumericStrings == {"85", "150"}
float_of_str(s) == IF s = "85" THEN 85 ELSE 150

\* _parse_num(val): None stays None, float(val) otherwise, None when float()
\* raises ValueError (a non-numeric string) or TypeError (a list, a dict).
parse_num(val) ==
    CASE val.t = "None" -> None
      [] val.t = "num"  -> val
      [] val.t = "bool" -> JNum(IF val.b THEN 1 ELSE 0)
      [] val.t = "str"  -> IF val.s \in NumericStrings
                           THEN JNum(float_of_str(val.s)) ELSE None
      [] OTHER -> None

\* Whether json.dumps raises TypeError on v: v holds an object that is not a
\* JSON value (tag "pyobj"), at the top or one level down.
Unserialisable(v) ==
    \/ v.t = "pyobj"
    \/ v.t = "list" /\ \E i \in DOMAIN v.items : v.items[i].t = "pyobj"
    \/ v.t = "dict" /\ \E k \in DOMAIN v.kv : v.kv[k].t = "pyobj"

\* _dump_json(data, default); default is never None at the call sites.
dump_json(data, default) ==
    IF IsNone(data) THEN json_dumps(default)
    ELSE IF Unserialisable(data) THEN json_dumps(default)
    ELSE json_dumps(data)

\* str(v) of a value that is not None.
py_str(v) == IF v.t \in {"str", "text"} THEN v ELSE [t |-> "str_of", v |-> v]

\* The types sqlite3 binds as a parameter: None, int, float, str.
Bindable(v) == v.t \in {"None", "num", "bool", "str", "text", "str_of"}

\* What a bound parameter is stored as (bool is an int).
Stored(v) == IF v.t = "bool" THEN JNum(IF v.b THEN 1 ELSE 0) ELSE v

\* The parameters tuple of store_candidate_data (lines 278-329):
\* [exc, params]; exc is an AttributeError raised by .get on a value that is
\* not a dict.
candidate_params(job_id, page_range, job_desc, assistant1_data, assistant2_data, raw1_json, raw2_json) ==
    LET a1 == IF IsNone(assistant1_data) THEN EmptyDict ELSE assistant1_data
        a2 == IF IsNone(assistant2_data) THEN EmptyDict ELSE assistant2_data
    IN  IF ~IsDict(a1) THEN [exc |-> TRUE]
        ELSE LET work_exp_obj == DictGet(a1, "work_experience", EmptyDict) IN
        IF ~IsDict(work_exp_obj) \/ ~IsDict(a2) THEN [exc |-> TRUE]
        ELSE
        LET total_years_experience == DictGet(work_exp_obj, "total_years_experience", None)
            total_internship_duration == DictGet(work_exp_obj, "total_internship_duration", None)
        IN  [exc |-> FALSE,
             params |->
               [c \in InsertColumns |->
                 CASE c = "job_id" -> job_id
                   [] c = "resume_page_range" -> page_range
                   [] c = "job_description_used" -> job_desc
                   [] c = "personal_information" ->
                        dump_json(DictGet(a1, "personal_information", None), EmptyDict)
                   [] c = "professional_summary" -> DictGet(a1, "professional_summary", None)
                   [] c = "work_experience" -> dump_json(work_exp_obj, EmptyDict)
                   [] c = "education" -> dump_json(DictGet(a1, "education", None), EmptyList)
                   [] c = "skills" -> dump_json(DictGet(a1, "skills", None), EmptyList)
                   [] c = "certifications" ->
                        dump_json(DictGet(a1, "certifications", None), EmptyList)
                   [] c = "score_percent" -> parse_num(DictGet(a2, "score_percent", None))
                   [] c = "score_reasoning" -> DictGet(a2, "reasoning", None)
                   [] c = "matched_skills" ->
                        dump_json(DictGet(a2, "matched_skills", None), EmptyList)
                   [] c = "missing_skills" ->
                        dump_json(DictGet(a2, "missing_skills", None), EmptyList)
                   [] c = "raw_assistant1_json" ->
                        IF Truthy(raw1_json) THEN py_str(raw1_json) ELSE None
                   [] c = "raw_assistant2_json" ->
                        IF Truthy(raw2_json) THEN py_str(raw2_json) ELSE None
                   [] c = "processing_timestamp" -> JStr("now")
                   [] c = "total_years_experience" ->
                        IF ~IsNone(total_years_experience)
                        THEN py_str(total_years_experience) ELSE None
                   [] c = "total_internship_duration" ->
                        IF ~IsNone(total_internship_duration)
                        THEN py_str(total_internship_duration) ELSE None
                   [] c = "overall_score_percent" ->
                        parse_num(DictGet(a2, "overall_score_percent", None))]]

\* store_candidate_data(): [ret, db]; ret 0 is None.
store_candidate_data(d, job_id, page_range, job_desc, assistant1_data, assistant2_data, raw1_json, raw2_json) ==
    IF job_id = 0 THEN [ret |-> 0, db |-> d]
    ELSE LET p == candidate_params(job_id, page_range, job_desc, assistant1_data,
                                   assistant2_data, raw1_json, raw2_json)
         IN  IF p.exc THEN [ret |-> 0, db |-> d]
             ELSE IF \E c \in InsertColumns \ {"job_id", "resume_page_range"} :
                        ~Bindable(p.params[c])
                  THEN [ret |-> 0, db |-> d]
             ELSE LET bound == [c \in InsertColumns |->
                                  IF c \in {"job_id", "resume_page_range"}
                                  THEN p.params[c] ELSE Stored(p.params[c])]
                      r == SqlInsertCandidate(d, bound, store_foreign_keys)
                  IN  IF r.err # "" THEN [ret |-> 0, db |-> d]
                      ELSE [ret |-> r.lastrowid, db |-> r.db]

----------------------------------------------------------------------------
(* storage_service.load_candidates_for_job *)

NotAvailable == JStr("N/A")

\* A lookup that also replaces a null or empty name by "N/A".
name_and_email_or_default(pi_json) ==
    IF pi_json.t = "text" /\ Len(pi_json.toks) > 0 /\ json_loads(pi_json.toks).ok
                          /\ IsDict(json_loads(pi_json.toks).v)
    THEN LET pi_data == json_loads(pi_json.toks).v
             full_name == DictGet(pi_data, "full_name", NotAvailable)
             email == DictGet(pi_data, "email", NotAvailable)
         IN  [candidate_name |-> IF Truthy(full_name) THEN full_name ELSE NotAvailable,
              email |-> IF Truthy(email) THEN email ELSE NotAvailable]
    ELSE [candidate_name |-> NotAvailable, email |-> NotAvailable]

\* Lines 403-425: candidate_name and email out of the personal_information
\* column; "N/A" unless the column is a non-empty string that parses to a dict.
name_and_email(pi_json) ==
    IF pi_json.t = "text" /\ Len(pi_json.toks) > 0 /\ json_loads(pi_json.toks).ok
                          /\ IsDict(json_loads(pi_json.toks).v)
    THEN LET pi_data == json_loads(pi_json.toks).v
         IN  [candidate_name |-> DictGet(pi_data, "full_name", NotAvailable),
              email |-> DictGet(pi_data, "email", NotAvailable)]
    ELSE [candidate_name |-> NotAvailable, email |-> NotAvailable]

\* ORDER BY x ASC on one column: NULL sorts before every number.
SortsBeforeAscending(x, y) == ~IsNone(y) /\ (IsNone(x) \/ x.n < y.n)

\* ORDER BY x DESC on one column: NULL sorts after every number.
SortsBefore(x, y) == ~IsNone(x) /\ (IsNone(y) \/ x.n > y.n)

\* ORDER BY c.score_percent DESC, c.overall_score_percent DESC (line 394).
RowBefore(a, b) ==
    \/ SortsBefore(a["score_percent"], b["score_percent"])
    \/ /\ a["score_percent"] = b["score_percent"]
       /\ SortsBefore(a["overall_score_percent"], b["overall_score_percent"])

\* The rows of a result in an order the ORDER BY clause allows.
OrderedRows(rows) ==
    CHOOSE q \in [1..Cardinality(rows) -> rows] :
        /\ \A i, j \in DOMAIN q : i # j => q[i] # q[j]
        /\ \A i, j \in DOMAIN q : i < j => ~RowBefore(q[j], q[i])

\* Lines 427-432: the row as a dict with the two fields added.
processed_row(d, row) ==
    [c \in d.candCols \cup {"job_name", "candidate_name", "email"} |->
        CASE c = "job_name" -> (CHOOSE j \in d.jobs : j.job_id = row["job_id"]).job_name
          [] c = "candidate_name" -> name_and_email(row["personal_information"]).candidate_name
          [] c = "email" -> name_and_email(row["personal_information"]).email
          [] OTHER -> row[c]]

\* A personal_information column that lines 409-417 cannot read an object from.
unreadable(pi_json) ==
    ~(pi_json.t = "text" /\ Len(pi_json.toks) > 0 /\ json_loads(pi_json.toks).ok
                         /\ IsDict(json_loads(pi_json.toks).v))

\* A loader whose parse errors reach the handler of line 442: one unreadable
\* row empties the whole result.
load_candidates_or_nothing(d, job_id) ==
    IF job_id = 0 THEN <<>>
    ELSE IF ~d.jobsTable \/ d.candSchema = "absent" \/ ~(InsertColumns \cup {"id"} \subseteq d.candCols)
    THEN <<>>
    ELSE LET rows == {c \in d.candidates : c["job_id"] = job_id /\ job_id \in JobIds(d)}
             q == OrderedRows(rows)
         IN  IF \E c \in rows : unreadable(c["personal_information"]) THEN <<>>
             ELSE [i \in DOMAIN q |-> processed_row(d, q[i])]

\* load_candidates_for_job (lines 357-445): [] for a falsy id and on a
\* database error (a selected table or column that does not exist).
load_candidates_for_job(d, job_id) ==
    IF job_id = 0 THEN <<>>
    ELSE IF ~d.jobsTable \/ d.candSchema = "absent" \/ ~(InsertColumns \cup {"id"} \subseteq d.candCols)
    THEN <<>>
    ELSE LET rows == {c \in d.candidates : c["job_id"] = job_id /\ job_id \in JobIds(d)}
             q == OrderedRows(rows)
         IN  [i \in DOMAIN q |-> processed_row(d, q[i])]

----------------------------------------------------------------------------
(* Inputs of the store operations *)

JobNames == {"A", "B"}
PdfNames == {"one.pdf", "two.pdf"}
Snippets == {"jd..."}

PersonalInfo == JDict([full_name |-> JStr("Ann"), email |-> JStr("ann@x")])

\* Extracted records (stage 1 output after json.loads).
ExtractedFull ==
    JDict([personal_information |-> PersonalInfo,
           professional_summary |-> JStr("summary"),
           work_experience |-> JDict([total_years_experience |-> JNum(5)]),
           skills |-> JList(<<JStr("sql")>>)])
ExtractedNullWork == JDict([personal_information |-> PersonalInfo, work_experience |-> None])
ExtractedList == JList(<<JNum(1)>>)
ExtractedSamples == {ExtractedFull, ExtractedNullWork}

\* Scored records (stage 2 output after json.loads, or the placeholder).
Placeholder ==
    JDict([score_percent |-> None, reasoning |-> JStr("Scoring failed"),
           matched_skills |-> EmptyList, missing_skills |-> EmptyList,
           overall_score_percent |-> None])
ScoredOf(score, overall) ==
    JDict([score_percent |-> score, reasoning |-> JStr("fits"),
           matched_skills |-> JList(<<JStr("sql")>>), missing_skills |-> EmptyList,
           overall_score_percent |-> overall])
ScoredGood == ScoredOf(JNum(85), JNum(100))
ScoredBad == ScoredOf(JNum(150), JStr("high"))
ScoredSamples == {Placeholder, ScoredGood, ScoredBad}
StoreScoredSamples == {ScoredGood, ScoredBad}

RawExtract == Text(<<Doc(ExtractedFull)>>)
RawScore == Text(<<Doc(ScoredGood)>>)

----------------------------------------------------------------------------
(* The store as the sessions of the application drive it.  Every script   *)
(* run of app.py calls init_db first (app.py line 27) and stops when it    *)
(* raises, so a session calls the other operations only once its init_db   *)
(* has returned.                                                           *)

FreshStore ==
    [jobsTable |-> FALSE, jobs |-> {}, jobSeq |-> 0,
     candSchema |-> "absent", candCols |-> {}, candidates |-> {}, candSeq |-> 0,
     oldMigration |-> NoOldTable]

\* A store left by an earlier version: one job, one candidate of that job in a
\* candidates table whose job_id has no ON DELETE CASCADE, and which may lack
\* the columns added since.
LegacyColumns == CanonicalColumns \ {"overall_score_percent", "total_internship_duration"}
LegacyRow(cols) ==
    [c \in cols |->
        CASE c = "id" -> 1
          [] c = "job_id" -> 1
          [] c = "resume_page_range" -> <<1>>
          [] c = "personal_information" -> json_dumps(PersonalInfo)
          [] c = "score_percent" -> JNum(85)
          [] OTHER -> None]
LegacyStore(schema, cols) ==
    [jobsTable |-> TRUE,
     jobs |-> {[job_id |-> 1, job_name |-> "A", pdf_filename |-> "one.pdf",
                job_description_snippet |-> "jd...", created_at |-> 1]},
     jobSeq |-> 1,
     candSchema |-> schema, candCols |-> cols,
     candidates |-> {LegacyRow(cols)}, candSeq |-> 1,
     oldMigration |-> NoOldTable]
LegacyStores ==
    {LegacyStore(schema, cols) : schema \in {"nofk", "noaction"},
                                 cols \in {CanonicalColumns, LegacyColumns}}

NoCall == [op |-> "none"]
IdleUi == [current_step |-> 0]
IdlePsg == [pc |-> "idle"]
IdleTrace == [invoked |-> <<>>, calls |-> <<>>, disposed |-> <<>>]
IdleCall == [pc |-> "idle"]

Init ==
    /\ db \in {FreshStore} \cup LegacyStores
    /\ ready = [s \in Sessions |-> FALSE]
    /\ last = NoCall
    /\ ui = IdleUi
    /\ psg = IdlePsg
    /\ trace = IdleTrace
    /\ call = IdleCall

\* app.py line 27: storage_service.init_db() at the top of a script run.
InitDb(s) ==
    \E fault \in IF db.candSchema \in {"nofk", "noaction"} THEN MigrationFaults
                  ELSE {"none"} :
        LET r == init_db(db, fault) IN
        /\ db' = r.db
        /\ ready' = [ready EXCEPT ![s] = ~r.raised]
        /\ last' = [op |-> "init_db", raised |-> r.raised, fault |-> fault,
                migrated |-> r.migrated]
        /\ UNCHANGED <<ui, psg, trace, call>>

CreateJob(s) ==
    /\ ready[s]
    /\ \E job_name \in JobNames, pdf_filename \in PdfNames, snippet \in Snippets :
        /\ (\E j \in db.jobs : j.job_name = job_name) \/ db.jobSeq < MaxJobs
        /\ LET r == create_job(db, job_name, pdf_filename, snippet) IN
           /\ db' = r.db
           /\ last' = [op |-> "create_job", job_name |-> job_name,
                       pdf_filename |-> pdf_filename, ret |-> r.ret,
                       previous |-> IF last.op = "create_job" /\ last.job_name = job_name
                                    THEN last.ret ELSE 0]
    /\ UNCHANGED <<ready, ui, psg, trace, call>>

StoreCandidate(s) ==
    /\ ready[s]
    /\ db.candSeq < MaxCands
    /\ \E job_id \in 0..MaxJobs, a1 \in ExtractedSamples, a2 \in StoreScoredSamples :
        LET r == store_candidate_data(db, job_id, <<1>>, JStr("jd"), a1, a2,
                                      RawExtract, RawScore) IN
        /\ db' = r.db
        /\ last' = [op |-> "store_candidate_data", job_id |-> job_id,
                    assistant2_data |-> a2, ret |-> r.ret,
                    had_job |-> job_id \in JobIds(db)]
    /\ UNCHANGED <<ready, ui, psg, trace, call>>

DeleteJob(s) ==
    /\ ready[s]
    /\ \E job_id \in 0..MaxJobs :
        LET r == delete_job_and_candidates(db, job_id) IN
        /\ db' = r.db
        /\ last' = [op |-> "delete_job_and_candidates",
                    job_id |-> job_id, ret |-> r.ret,
                    had_job |-> job_id \in JobIds(db),
                    had_candidates |-> Cardinality({c \in db.candidates : c["job_id"] = job_id})]
    /\ UNCHANGED <<ready, ui, psg, trace, call>>

Next ==
    \E s \in Sessions :
        \/ InitDb(s)
        \/ CreateJob(s)
        \/ StoreCandidate(s)
        \/ DeleteJob(s)

Spec == Init /\ [][Next]_vars

----------------------------------------------------------------------------
(* assistants.get_text_for_pages.  A per-page text is None or a text whose *)
(* tokens are whitespace, junk (page content) or errmark, a page content   *)
(* that itself holds the characters "--- Error:".  The result is a text    *)
(* made of the blocks start n / content / end n, warn n (empty page) and   *)
(* page_not_found n, joined by whitespace, or the single token ocr_empty.  *)

ErrMark == [tok |-> "errmark"]
StartPage(n) == [tok |-> "start", n |-> n]
EndPage(n) == [tok |-> "end", n |-> n]
WarnEmpty(n) == [tok |-> "warn", n |-> n]
PageNotFound(n) == [tok |-> "page_not_found", n |-> n]
OcrEmpty == [tok |-> "ocr_empty"]

\* The page lookup with Python's own indexing: index -1 is the last page.
page_block_wrapping(ocr_markdowns, page_num) ==
    LET page_index == IF page_num >= 1 THEN page_num - 1 ELSE Len(ocr_markdowns) + page_num - 1 IN
    IF 0 <= page_index /\ page_index < Len(ocr_markdowns)
    THEN LET page_content == ocr_markdowns[page_index + 1] IN
         IF ~IsNone(page_content) /\ Len(strip(page_content.toks)) > 0
         THEN <<StartPage(page_num)>> \o page_content.toks \o <<EndPage(page_num)>>
         ELSE <<WarnEmpty(page_num)>>
    ELSE <<PageNotFound(page_num)>>

\* The block appended for page_num (lines 50-61).
page_block(ocr_markdowns, page_num) ==
    LET page_index == page_num - 1 IN
    IF 0 <= page_index /\ page_index < Len(ocr_markdowns)
    THEN LET page_content == ocr_markdowns[page_index + 1] IN
         IF ~IsNone(page_content) /\ Len(strip(page_content.toks)) > 0
         THEN <<StartPage(page_num)>> \o page_content.toks \o <<EndPage(page_num)>>
         ELSE <<WarnEmpty(page_num)>>
    ELSE <<PageNotFound(page_num)>>

\* "\n\n".join(combined_text)
RECURSIVE join_blocks(_, _)
join_blocks(ocr_markdowns, page_numbers) ==
    IF Len(page_numbers) = 0 THEN <<>>
    ELSE IF Len(page_numbers) = 1 THEN page_block(ocr_markdowns, page_numbers[1])
    ELSE page_block(ocr_markdowns, page_numbers[1]) \o <<Ws>>
         \o join_blocks(ocr_markdowns, Tail(page_numbers))

get_text_for_pages(ocr_markdowns, page_numbers) ==
    IF Len(ocr_markdowns) = 0 THEN Text(<<OcrEmpty>>)
    ELSE Text(join_blocks(ocr_markdowns, page_numbers))

\* A test that looks for the per-page marker "--- Error: Page" only.
contains_page_error_marker(text) ==
    \E i \in DOMAIN text.toks : text.toks[i].tok \in {"page_not_found"}

\* "--- Error:" in combined_text
contains_error_marker(text) ==
    \E i \in DOMAIN text.toks : text.toks[i].tok \in {"page_not_found", "ocr_empty", "errmark"}

----------------------------------------------------------------------------
(* assistants.process_single_resume_group, the parts without a stage call *)

\* page_range_str / rng: the first and last page of a group of several pages,
\* the page of a group of one.  An empty group raises IndexError.
page_range(grp) == IF Len(grp) > 1 THEN <<grp[1], grp[Len(grp)]>> ELSE <<grp[1]>>

\* Lines 152-154 and 188-190: strip, drop a leading json fence, drop a
\* trailing fence.
strip_fences(raw) ==
    LET s0 == strip(raw.toks)
        s1 == IF Len(s0) > 0 /\ s0[1].tok = "fence_json" THEN Tail(s0) ELSE s0
    IN  IF Len(s1) > 0 /\ s1[Len(s1)].tok = "fence"
        THEN SubSeq(s1, 1, Len(s1) - 1) ELSE s1

\* Lines 149-162: the extracted record, None when there is no response or
\* json.loads raises.
parse_extraction(raw_json_extract) ==
    IF ~Truthy(raw_json_extract) THEN None
    ELSE LET r == json_loads(strip_fences(raw_json_extract))
         IN  IF r.ok THEN r.v ELSE None

\* Lines 185-201: as parse_extraction; the key check of line 193 raises
\* TypeError on a number, a boolean or null, which leaves None as well.
parse_scoring(raw_json_score) ==
    IF ~Truthy(raw_json_score) THEN None
    ELSE LET r == json_loads(strip_fences(raw_json_score))
         IN  IF r.ok /\ r.v.t \notin {"num", "bool", "None"} THEN r.v ELSE None

\* Line 164 without its test: scoring goes ahead whatever was extracted.
extraction_never_failed(extracted_data) == FALSE

\* Line 164: extraction counts as failed when the record is None or empty.
extraction_failed(extracted_data) == ~Truthy(extracted_data)

\* Lines 204-206 left out: a failed scoring leaves the scored record absent.
scored_without_placeholder(scored_data) ==
    IF ~Truthy(scored_data) THEN None ELSE scored_data

\* Lines 204-206: the scored record, the placeholder when scoring failed.
scored_or_placeholder(scored_data) ==
    IF ~Truthy(scored_data) THEN Placeholder ELSE scored_data

NoResponseExtract == JStr("Error: No response from Extraction AI")
NoResponseScore == JStr("Error: No response from Scoring AI")
AggregationFailed == JStr("Error: Failed valid text aggregation")

----------------------------------------------------------------------------
(* The batch run of app.py: the confirm step (step 3) and the processing   *)
(* loop (step 4), with process_single_resume_group stepped through its two *)
(* stage calls.  A stage call is call_openai_assistant, which returns the  *)
(* response text or None.                                                  *)

\* Per-page OCR texts of the uploaded document: a page of text, a blank page,
\* a page of text.
OcrPages == <<Text(<<Junk>>), Text(<<Ws>>), Text(<<Junk, Ws, Junk>>)>>

\* Page groups the boundary step can leave in resume_page_groups: pages of
\* the document, a range running past its end, and the empty range that
\* End Here appends when the current page lies before the group's start page
\* (app.py lines 346 and 351).
PageGroups == {<<1>>, <<1, 2>>, <<3, 4>>, <<>>}

GroupLists == UNION {[1..n -> PageGroups] : n \in 1..MaxGroups}

\* What the extraction stage may return.
ExtractResponses ==
    {None,
     Text(<<Junk>>),
     Text(<<Doc(EmptyDict)>>),
     Text(<<Fence, Doc(ExtractedFull), Fence>>),
     Text(<<FenceJson, Ws, Doc(ExtractedFull), Ws, Fence>>),
     Text(<<Doc(ExtractedNullWork)>>),
     Text(<<Doc(ExtractedList)>>)}

\* What the scoring stage may return.
ScoreResponses ==
    {None,
     Text(<<Junk>>),
     Text(<<Doc(JNum(5))>>),
     Text(<<Ws, FenceJson, Doc(ScoredGood), Fence, Ws>>),
     Text(<<Doc(ScoredBad)>>)}

InitialisedStore == init_db(FreshStore, "none").db

ConfirmUi(groups) ==
    [current_step |-> 3, resume_page_groups |-> groups,
     ocr_response_data |-> OcrPages, job_description |-> JStr("jd"),
     job_name_input |-> "A", uploaded_pdf_name |-> "one.pdf",
     current_job_id |-> 0, selected_job_id |-> 0,
     processing_in_progress |-> FALSE, error |-> "",
     i |-> 0, ok |-> 0, err |-> 0]

InitBatch ==
    /\ db = InitialisedStore
    /\ ready = [s \in Sessions |-> TRUE]
    /\ last = NoCall
    /\ \E groups \in GroupLists : ui = ConfirmUi(groups)
    /\ psg = IdlePsg
    /\ trace = IdleTrace
    /\ call = IdleCall

Total == Len(ui.resume_page_groups)

\* Lines 376-382: the Process Job button.
ProcessJob ==
    /\ ui.current_step = 3
    /\ ui.error = ""
    /\ LET r == create_job(db, ui.job_name_input, ui.uploaded_pdf_name, "jd...") IN
       /\ db' = r.db
       /\ ui' = IF r.ret = 0 THEN ui
                ELSE [ui EXCEPT !.current_job_id = r.ret, !.current_step = 4,
                                !.processing_in_progress = TRUE]
    /\ UNCHANGED <<ready, last, psg, trace, call>>

\* Lines 392-395 and 127-131: the loop takes the next group and calls
\* process_single_resume_group.
LoopEnter ==
    /\ ui.current_step = 4 /\ psg.pc = "idle"
    /\ ui.i < Total
    /\ LET grp == ui.resume_page_groups[ui.i + 1] IN
       /\ Len(grp) > 0
       /\ psg' = [pc |-> "aggregate", page_group |-> grp, combined_text |-> None,
                  resp1 |-> None, resp2 |-> None,
                  raw_json_extract |-> None, extracted_data |-> None,
                  raw_json_score |-> None, scored_data |-> None,
                  ret |-> <<>>]
       /\ trace' = [trace EXCEPT !.invoked = Append(@, ui.i + 1)]
    /\ UNCHANGED <<db, ready, last, ui, call>>

\* A handler placed inside the loop body: the failed group is passed over.
skip_failed_group(u, e) == [u EXCEPT !.i = u.i + 1, !.err = u.err + 1]

\* Line 410: the except clause around the whole loop.
on_loop_exception(u, e) ==
    [u EXCEPT !.processing_in_progress = FALSE, !.current_step = 3, !.error = e]

\* Line 393 on an empty group: grp[0] raises IndexError, caught at line 410.
LoopRaise ==
    /\ ui.current_step = 4 /\ psg.pc = "idle"
    /\ ui.i < Total
    /\ Len(ui.resume_page_groups[ui.i + 1]) = 0
    /\ ui' = on_loop_exception(ui, "IndexError")
    /\ UNCHANGED <<db, ready, last, psg, trace, call>>

\* Lines 403-409: the loop is exhausted.
LoopFinish ==
    /\ ui.current_step = 4 /\ psg.pc = "idle"
    /\ ui.i = Total
    /\ ui' = [ui EXCEPT !.selected_job_id = ui.current_job_id, !.current_step = 5,
                        !.processing_in_progress = FALSE]
    /\ UNCHANGED <<db, ready, last, psg, trace, call>>

\* Lines 136-143.
PsgAggregate ==
    /\ psg.pc = "aggregate"
    /\ LET combined_text == get_text_for_pages(ui.ocr_response_data, psg.page_group) IN
       psg' = IF ~Truthy(combined_text) \/ contains_error_marker(combined_text)
              THEN [psg EXCEPT !.pc = "return", !.combined_text = combined_text,
                               !.ret = <<None, None, AggregationFailed, None>>]
              ELSE [psg EXCEPT !.pc = "call_extract", !.combined_text = combined_text]
    /\ UNCHANGED <<db, ready, last, ui, trace, call>>

\* Line 146: the extraction stage call and what it returns.
PsgCallExtract ==
    /\ psg.pc = "call_extract"
    /\ \E resp \in ExtractResponses :
        psg' = [psg EXCEPT !.pc = "parse_extract", !.resp1 = resp,
                           !.raw_json_extract = resp]
    /\ trace' = [trace EXCEPT !.calls = Append(@, [group |-> ui.i + 1, stage |-> "extract"])]
    /\ UNCHANGED <<db, ready, last, ui, call>>

\* A failed extraction answered by calling the stage again.
retry_extraction == "call_extract"

\* Lines 164-166: a failed extraction ends the function.
after_failed_extraction == "return"

\* Lines 149-166.
PsgParseExtract ==
    /\ psg.pc = "parse_extract"
    /\ LET extracted_data == parse_extraction(psg.raw_json_extract)
           raw == IF Truthy(psg.raw_json_extract) THEN psg.raw_json_extract
                  ELSE NoResponseExtract
       IN  psg' = IF extraction_failed(extracted_data)
                  THEN [psg EXCEPT !.pc = after_failed_extraction,
                                   !.raw_json_extract = raw,
                                   !.extracted_data = extracted_data,
                                   !.ret = <<None, None, raw, None>>]
                  ELSE [psg EXCEPT !.pc = "call_score", !.raw_json_extract = raw,
                                   !.extracted_data = extracted_data]
    /\ UNCHANGED <<db, ready, last, ui, trace, call>>

\* Lines 171-182: the scoring stage call and what it returns.
PsgCallScore ==
    /\ psg.pc = "call_score"
    /\ \E resp \in ScoreResponses :
        psg' = [psg EXCEPT !.pc = "parse_score", !.resp2 = resp, !.raw_json_score = resp]
    /\ trace' = [trace EXCEPT !.calls = Append(@, [group |-> ui.i + 1, stage |-> "score"])]
    /\ UNCHANGED <<db, ready, last, ui, call>>

\* Lines 185-211.
PsgParseScore ==
    /\ psg.pc = "parse_score"
    /\ LET parsed == parse_scoring(psg.raw_json_score)
           raw == IF Truthy(psg.raw_json_score) THEN psg.raw_json_score
                  ELSE NoResponseScore
           scored_data == scored_or_placeholder(parsed)
       IN  psg' = [psg EXCEPT !.pc = "return", !.raw_json_score = raw,
                              !.scored_data = scored_data,
                              !.ret = <<psg.extracted_data, scored_data,
                                        psg.raw_json_extract, raw>>]
    /\ UNCHANGED <<db, ready, last, ui, trace, call>>

\* The test of line 397 replaced by one that stores every result.
stores_every_result(extracted, scored) == TRUE

\* Line 397: whether the result is handed to store_candidate_data.
stores_result(extracted, scored) == Truthy(extracted) /\ Truthy(scored)

\* A loop that ends at the first resume without an extracted record.
next_index_stopping_on_failure(i, total, extracted) ==
    IF Truthy(extracted) THEN i + 1 ELSE total

\* Line 392: the for loop goes on to the next group whatever the result was.
next_index(i, total, extracted) == i + 1

\* A count that takes every call of store_candidate_data for a stored row.
counts_every_store_call(called, rowid) == called

\* Lines 397-400: ok is counted when the store was called and returned a row id.
counts_as_stored(called, rowid) == called /\ rowid # 0

\* Lines 396-402: the loop disposes of the returned tuple.
LoopDispose ==
    /\ ui.current_step = 4 /\ psg.pc = "return"
    /\ LET extracted == psg.ret[1]
           scored == psg.ret[2]
           rng == page_range(psg.page_group)
           called == stores_result(extracted, scored)
           r == IF called
                THEN store_candidate_data(db, ui.current_job_id, rng, ui.job_description,
                                          extracted, scored, psg.ret[3], psg.ret[4])
                ELSE [ret |-> 0, db |-> db]
           ok == IF counts_as_stored(called, r.ret) THEN ui.ok + 1 ELSE ui.ok
           err == IF counts_as_stored(called, r.ret) THEN ui.err ELSE ui.err + 1
       IN  /\ db' = r.db
           /\ ui' = [ui EXCEPT !.i = next_index(ui.i, Total, extracted),
                               !.ok = ok, !.err = err]
           /\ trace' = [trace EXCEPT !.disposed =
                          Append(@, [extracted |-> Truthy(extracted),
                                     resp1 |-> psg.resp1, resp2 |-> psg.resp2,
                                     store_called |-> called, rowid |-> r.ret,
                                     ok |-> ok, err |-> err])]
    /\ psg' = IdlePsg
    /\ UNCHANGED <<ready, last, call>>

NextBatch ==
    \/ ProcessJob
    \/ LoopEnter
    \/ LoopRaise
    \/ LoopFinish
    \/ PsgAggregate
    \/ PsgCallExtract
    \/ PsgParseExtract
    \/ PsgCallScore
    \/ PsgParseScore
    \/ LoopDispose

SpecBatch == InitBatch /\ [][NextBatch]_vars

----------------------------------------------------------------------------
(* The batch run resumed after a fatal error: line 410 has put the operator *)
(* back on the confirm step with the same groups and the same job name.     *)

\* Lines 376-382 pressed again: create_job returns the id of the job that
\* already exists, and the loop of line 392 starts again at the first group.
ResumeJob ==
    /\ ui.current_step = 3
    /\ ui.error # ""
    /\ Len(trace.disposed) < MaxCands
    /\ LET r == create_job(db, ui.job_name_input, ui.uploaded_pdf_name, "jd...") IN
       /\ db' = r.db
       /\ ui' = IF r.ret = 0 THEN ui
                ELSE [ui EXCEPT !.current_job_id = r.ret, !.current_step = 4,
                                !.processing_in_progress = TRUE, !.error = "",
                                !.i = 0, !.ok = 0, !.err = 0]
    /\ UNCHANGED <<ready, last, psg, trace, call>>

NextResume ==
    \/ NextBatch
    \/ ResumeJob

SpecResume == InitBatch /\ [][NextResume]_vars

----------------------------------------------------------------------------
(* One batch run as a function of the order of its groups, the stage        *)
(* responses being fixed for each group.                                    *)

\* process_single_resume_group (lines 127-211) given what the two stages
\* answer: the returned tuple.
process_single_resume_group(page_group, ocr_data, resp1, resp2) ==
    LET combined_text == get_text_for_pages(ocr_data, page_group)
        extracted_data == parse_extraction(resp1)
        raw_json_extract == IF Truthy(resp1) THEN resp1 ELSE NoResponseExtract
        raw_json_score == IF Truthy(resp2) THEN resp2 ELSE NoResponseScore
        scored_data == scored_or_placeholder(parse_scoring(resp2))
    IN  IF ~Truthy(combined_text) \/ contains_error_marker(combined_text)
        THEN <<None, None, AggregationFailed, None>>
        ELSE IF extraction_failed(extracted_data)
        THEN <<None, None, raw_json_extract, None>>
        ELSE <<extracted_data, scored_data, raw_json_extract, raw_json_score>>

\* Lines 396-402: the loop disposes of the tuple ret returned for the group
\* grp; st is [db, ok, err, fatal].
dispose(st, grp, job_id, ret) ==
    LET called == stores_result(ret[1], ret[2])
        r == IF called
             THEN store_candidate_data(st.db, job_id, page_range(grp), JStr("jd"),
                                       ret[1], ret[2], ret[3], ret[4])
             ELSE [ret |-> 0, db |-> st.db]
        stored == called /\ r.ret # 0
    IN  [db |-> r.db,
         ok |-> IF stored THEN st.ok + 1 ELSE st.ok,
         err |-> IF stored THEN st.err ELSE st.err + 1,
         fatal |-> FALSE]

\* Lines 392-402: one turn of the loop on the group grp; nothing runs once
\* an exception has left the loop.  (The returned tuple is bound once.)
loop_body(st, grp, outcome, job_id) ==
    IF st.fatal THEN st
    ELSE IF Len(grp) = 0 THEN [st EXCEPT !.fatal = TRUE]
    ELSE CHOOSE next \in
            {dispose(st, grp, job_id, ret) :
                ret \in {process_single_resume_group(grp, OcrPages, outcome[grp][1],
                                                     outcome[grp][2])}} : TRUE

\* Process Job (lines 376-382) and the whole loop (lines 390-410) on the
\* initialised store.
batch_run(groups, outcome) ==
    LET r == create_job(InitialisedStore, "A", "one.pdf", "jd...")
        after[i \in 0..Len(groups)] ==
            IF i = 0 THEN [db |-> r.db, ok |-> 0, err |-> 0, fatal |-> FALSE]
            ELSE CHOOSE next \in
                    {loop_body(st, groups[i], outcome, r.ret) : st \in {after[i - 1]}} : TRUE
    IN  after[Len(groups)]

\* What the two stages answer for a group: both succeed, neither answers,
\* scoring answers no JSON, extraction yields a null work_experience.
StageOutcomes ==
    {<<Text(<<Doc(ExtractedFull)>>), Text(<<Doc(ScoredGood)>>)>>,
     <<None, None>>,
     <<Text(<<Doc(ExtractedFull)>>), Text(<<Junk>>)>>,
     <<Text(<<Doc(ExtractedNullWork)>>), Text(<<Doc(ScoredGood)>>)>>}

Orders(n) == {p \in [1..n -> 1..n] : \A a, b \in 1..n : a # b => p[a] # p[b]}

InitOrder ==
    /\ db = InitialisedStore
    /\ ready = [s \in Sessions |-> TRUE]
    /\ last = NoCall
    /\ \E groups \in GroupLists : ui = ConfirmUi(groups)
    /\ psg = IdlePsg
    /\ \E outcome \in [PageGroups \ {<<>>} -> StageOutcomes] : trace = [outcome |-> outcome]
    /\ call = IdleCall

\* The batch is run with its groups taken in the order p.
RunInOrder ==
    /\ \E p \in Orders(Total) :
         LET groups == [k \in 1..Total |-> ui.resume_page_groups[p[k]]] IN
         \E st \in {batch_run(groups, trace.outcome)} :
             /\ last' = [op |-> "batch_run", groups |-> groups, ok |-> st.ok,
                         err |-> st.err, fatal |-> st.fatal]
             /\ db' = st.db
    /\ UNCHANGED <<ready, ui, psg, trace, call>>

NextOrder == RunInOrder

SpecOrder == InitOrder /\ [][NextOrder]_vars

----------------------------------------------------------------------------
(* process_single_resume_group called on its own: any per-page texts and any
   list of page numbers as arguments.  The caller's frame holds them in
   ocr_response_data and resume_page_groups, as app.py line 395 passes them. *)

MaxPages == 2
MaxRequested == 2

\* A per-page text: None, a blank page, a page of text.
PageTexts == {None, Text(<<Ws>>), Text(<<Junk, Ws, Junk>>)}
OcrLists == UNION {[1..n -> PageTexts] : n \in 0..MaxPages}
PageNumbers == 0..(MaxPages + 1)
PageLists == UNION {[1..n -> PageNumbers] : n \in 0..MaxRequested}

CallerUi(ocr_data, page_group) ==
    [ConfirmUi(<<page_group>>) EXCEPT !.ocr_response_data = ocr_data, !.current_step = 4]

InitPsg ==
    /\ db = InitialisedStore
    /\ ready = [s \in Sessions |-> TRUE]
    /\ last = NoCall
    /\ ui = IdleUi
    /\ psg = IdlePsg
    /\ trace = IdleTrace
    /\ call = IdleCall

\* Lines 119-131: the call.  Line 127 reads page_group[0] before any try, so
\* an empty page_group raises IndexError out of the function.
PsgEnter ==
    /\ psg.pc = "idle"
    /\ \E ocr_data \in OcrLists, page_group \in PageLists :
          /\ ui' = CallerUi(ocr_data, page_group)
          /\ psg' = IF Len(page_group) = 0
                    THEN [pc |-> "raised", page_group |-> page_group, error |-> "IndexError"]
                    ELSE [pc |-> "aggregate", page_group |-> page_group, combined_text |-> None,
                          resp1 |-> None, resp2 |-> None,
                          raw_json_extract |-> None, extracted_data |-> None,
                          raw_json_score |-> None, scored_data |-> None,
                          ret |-> <<>>]
    /\ trace' = [IdleTrace EXCEPT !.invoked = <<1>>]
    /\ UNCHANGED <<db, ready, last, call>>

\* The caller has the result, or the exception.
PsgReturn ==
    /\ psg.pc \in {"return", "raised"}
    /\ psg' = IdlePsg
    /\ ui' = IdleUi
    /\ trace' = IdleTrace
    /\ UNCHANGED <<db, ready, last, call>>

NextPsg ==
    \/ PsgEnter
    \/ PsgAggregate
    \/ PsgCallExtract
    \/ PsgParseExtract
    \/ PsgCallScore
    \/ PsgParseScore
    \/ PsgReturn

SpecPsg == InitPsg /\ [][NextPsg]_vars

----------------------------------------------------------------------------
(* Start-up on a store left by an earlier version, whatever its candidates
   table holds: a table without ON DELETE CASCADE keeps the candidates of a
   deleted job, and nothing stops a NULL job_id. *)

OldRow(cols, id, job_id) ==
    [c \in cols |->
        CASE c = "id" -> id
          [] c = "job_id" -> job_id
          [] c = "resume_page_range" -> <<1>>
          [] c = "personal_information" -> json_dumps(PersonalInfo)
          [] c = "score_percent" -> JNum(85)
          [] OTHER -> None]

\* Job 1 exists, job 2 was created and deleted.  Row 1 belongs to job 1,
\* row 2 to the deleted job 2, row 3 has a NULL job_id.
OldRows(cols) == {OldRow(cols, 1, 1), OldRow(cols, 2, 2), OldRow(cols, 3, 0)}

OldStore(schema, cols, rows) ==
    [LegacyStore(schema, cols) EXCEPT !.jobSeq = 2, !.candidates = rows, !.candSeq = 3]

InitMigrate ==
    /\ \E schema \in {"nofk", "noaction"}, cols \in {CanonicalColumns, LegacyColumns} :
          \E rows \in SUBSET OldRows(cols) : db = OldStore(schema, cols, rows)
    /\ ready = [s \in Sessions |-> FALSE]
    /\ last = NoCall
    /\ ui = IdleUi
    /\ psg = IdlePsg
    /\ trace = IdleTrace
    /\ call = IdleCall

NextMigrate ==
    \E s \in Sessions :
        \/ InitDb(s)
        \/ DeleteJob(s)

SpecMigrate == InitMigrate /\ [][NextMigrate]_vars

----------------------------------------------------------------------------
(* The store written and read back: candidates stored with varied
   personal_information and scores, and load_candidates_for_job as the cached
   loader of app.py line 57 calls it. *)

\* What a resume is stored with: the personal_information of its extracted
\* record (a full object, an object with a null name and no email, a text
\* where an object was expected) and its scored record (both scores, one
\* score, none; two different fit scores, one fit score with two overall
\* scores).
Profiles ==
    {<<PersonalInfo, ScoredGood>>,
     <<JDict([full_name |-> None]), ScoredOf(JNum(85), None)>>,
     <<JStr("Ann"), Placeholder>>,
     <<PersonalInfo, ScoredOf(JNum(70), JNum(100))>>,
     <<JDict([full_name |-> None]), ScoredOf(JNum(85), JNum(90))>>}

\* The store with the jobs A and B created.
StoreWithJobs ==
    create_job(create_job(InitialisedStore, "A", "one.pdf", "jd...").db, "B", "one.pdf", "jd...").db

\* The same store holding a candidate of job A whose personal_information
\* column is no JSON text, the row lines 415-417 are written for.
StoreWithUnparsableRow ==
    LET d == store_candidate_data(StoreWithJobs, 1, <<1>>, JStr("jd"),
                                  JDict([personal_information |-> PersonalInfo]),
                                  ScoredGood, RawExtract, RawScore).db
    IN  [d EXCEPT !.candidates =
            {[c EXCEPT !["personal_information"] = Text(<<Junk>>)] : c \in d.candidates}]

InitLoad ==
    /\ db \in {StoreWithJobs, StoreWithUnparsableRow}
    /\ ready = [s \in Sessions |-> TRUE]
    /\ last = NoCall
    /\ ui = IdleUi
    /\ psg = IdlePsg
    /\ trace = [stored |-> {}]
    /\ call = IdleCall

\* app.py line 398 with an extracted record holding personal_information.
\* trace.stored remembers the object each stored row was given.
StoreProfile(s) ==
    /\ ready[s]
    /\ db.candSeq < MaxCands
    /\ \E job_id \in 1..MaxJobs, p \in Profiles :
        LET pi == p[1]
            a2 == p[2]
            r == store_candidate_data(db, job_id, <<1>>, JStr("jd"),
                                      JDict([personal_information |-> pi]), a2,
                                      RawExtract, RawScore) IN
        /\ db' = r.db
        /\ last' = [op |-> "store_candidate_data", job_id |-> job_id,
                    assistant2_data |-> a2, ret |-> r.ret,
                    had_job |-> job_id \in JobIds(db)]
        /\ trace' = IF r.ret = 0 THEN trace
                    ELSE [trace EXCEPT !.stored = @ \cup {[id |-> r.ret, personal_information |-> pi]}]
    /\ UNCHANGED <<ready, ui, psg, call>>

\* app.py lines 57-59: load_candidates_for_job(job_id).
LoadCandidates(s) ==
    /\ ready[s]
    /\ \E job_id \in 0..MaxJobs :
        last' = [op |-> "load_candidates_for_job", job_id |-> job_id,
                 ret |-> load_candidates_for_job(db, job_id)]
    /\ UNCHANGED <<db, ready, ui, psg, trace, call>>

NextLoad ==
    \E s \in Sessions :
        \/ StoreProfile(s)
        \/ LoadCandidates(s)
        \/ DeleteJob(s)

SpecLoad == InitLoad /\ [][NextLoad]_vars

----------------------------------------------------------------------------
(* Claims about the job store, checked under Spec *)

JobRows(job_name) == {j \in db.jobs : j.job_name = job_name}
CandidatesOf(job_id) ==
    IF db.candSchema = "absent" THEN {}
    ELSE {c \in db.candidates : c["job_id"] = job_id}

\* C1: after store_candidate_data has succeeded for an existing job J, a call
\* delete_job_and_candidates(J) returns true and leaves no jobs row of J and
\* no candidates row whose job_id is J.
C1_CascadeDelete ==
    (last.op = "delete_job_and_candidates" /\ last.had_job /\ last.had_candidates > 0)
        => /\ last.ret = TRUE
           /\ last.job_id \notin JobIds(db)
           /\ CandidatesOf(last.job_id) = {}

\* A job holding two candidates has just been deleted.
C1_Witness ==
    /\ last.op = "delete_job_and_candidates"
    /\ last.had_job
    /\ last.had_candidates >= 2
    /\ last.ret = TRUE

\* C2: in every reachable state every candidates row has the job_id of a row
\* that currently exists in jobs: there is no orphan candidate.
C2_NoOrphanCandidate ==
    db.candSchema # "absent" =>
        \A c \in db.candidates : c["job_id"] \in JobIds(db)

\* A store into a job id that names no job has just been refused, while
\* another job holds a candidate.
C2_Witness ==
    /\ last.op = "store_candidate_data"
    /\ last.job_id # 0
    /\ last.job_id \notin JobIds(db)
    /\ last.ret = 0
    /\ db.candidates # {}
    /\ db.jobSeq > 1

\* C6: calling create_job twice with the same job name returns the same job
\* id both times and leaves exactly one jobs row with that name.
C6_CreateJobIdempotent ==
    (last.op = "create_job" /\ last.previous # 0)
        => /\ last.ret = last.previous
           /\ Cardinality(JobRows(last.job_name)) = 1
           /\ \A j \in JobRows(last.job_name) : j.job_id = last.ret

\* The second of two create_job calls with one name and two different source
\* document names has returned.
C6_Witness ==
    /\ last.op = "create_job"
    /\ last.previous # 0
    /\ \E j \in JobRows(last.job_name) : j.pdf_filename # last.pdf_filename

InRange(v) == v.t = "None" \/ (v.t = "num" /\ 0 <= v.n /\ v.n <= 100)

\* C7: every score_percent and overall_score_percent stored by
\* store_candidate_data is null or lies in [0,100] (a value that is
\* non-numeric or out of range is stored as null).
C7_ScoresNullOrInRange ==
    db.candSchema # "absent" =>
        \A c \in db.candidates :
            /\ InRange(c["score_percent"])
            /\ "overall_score_percent" \in db.candCols => InRange(c["overall_score_percent"])

----------------------------------------------------------------------------
(* Claims about the batch run, checked under SpecBatch *)

Disposed == trace.disposed
ErrBefore(k) == IF k = 1 THEN 0 ELSE Disposed[k - 1].err
OkBefore(k) == IF k = 1 THEN 0 ELSE Disposed[k - 1].ok
RowIds == {c["id"] : c \in db.candidates}
Called(group, stage) == \E n \in DOMAIN trace.calls : trace.calls[n] = [group |-> group, stage |-> stage]

\* Stage responses that are absent or are no JSON, fenced or not.
AbsentOrUnparsable == {None, Text(<<Junk>>)}

\* The JSON document a response carries.
DocOf(resp) == resp.toks[CHOOSE n \in DOMAIN resp.toks : resp.toks[n].tok = "doc"]

\* C3: a resume whose extraction failed (no extracted record returned) never
\* causes a candidates row to be written: store_candidate_data is not called
\* for it and it is counted as errored.
C3_FailedExtractionNotStored ==
    /\ \A k \in DOMAIN Disposed :
          ~Disposed[k].extracted =>
              /\ ~Disposed[k].store_called
              /\ Disposed[k].rowid = 0
              /\ Disposed[k].err = ErrBefore(k) + 1
              /\ Disposed[k].ok = OkBefore(k)
    /\ RowIds = {Disposed[k].rowid : k \in {n \in DOMAIN Disposed : Disposed[n].extracted}} \ {0}

\* A resume without an extracted record was disposed of, then one was stored.
C3_Witness ==
    /\ Len(Disposed) >= 2
    /\ ~Disposed[1].extracted
    /\ Disposed[1].resp1 = None
    /\ Disposed[2].rowid # 0

\* C4: every resume whose extraction succeeded but whose scoring failed is
\* persisted for the current job as a candidates row with score_percent null,
\* overall_score_percent null and score_reasoning "Scoring failed", whatever
\* the extracted record holds.
C4_ScoringFailureStillStored ==
    \A k \in DOMAIN Disposed :
        (Disposed[k].extracted /\ Disposed[k].resp2 \in AbsentOrUnparsable) =>
            \E c \in db.candidates :
                /\ c["id"] = Disposed[k].rowid
                /\ c["job_id"] = ui.current_job_id
                /\ c["score_percent"] = None
                /\ c["overall_score_percent"] = None
                /\ c["score_reasoning"] = JStr("Scoring failed")

\* C5: a total failure of resume gi (no extracted record: abort at the
\* aggregation or at the extraction step) never stops the batch: the loop goes
\* on to g(i+1), and process_single_resume_group is invoked for the groups in
\* order.  The batch ends before gn only when a later group itself raises, the
\* fatal exception of lines 391 and 410.
C5_FailureDoesNotStopBatch ==
    /\ \A n \in DOMAIN trace.invoked : trace.invoked[n] \in 1..Total
    /\ \A n \in DOMAIN trace.invoked : n > 1 => trace.invoked[n] > trace.invoked[n - 1]
    /\ ui.current_step = 5 => trace.invoked = [n \in 1..Total |-> n]
    /\ \A k \in DOMAIN Disposed :
          (~Disposed[k].extracted /\ k < Total) =>
              \/ \E n \in DOMAIN trace.invoked : trace.invoked[n] = k + 1
              \/ ui.current_step = 4 /\ ui.i = k /\ psg.pc = "idle"
              \/ ui.error = "IndexError" /\ ui.i = k
                 /\ ui.resume_page_groups[k + 1] = <<>>

\* Group 1 yielded no extracted record, and process_single_resume_group has
\* been invoked for group 2 and is about to call the extraction stage.
C5_Witness ==
    /\ Len(Disposed) >= 1
    /\ ~Disposed[1].extracted
    /\ Len(trace.invoked) >= 2
    /\ trace.invoked[2] = 2
    /\ psg.pc = "call_extract"

\* C8: when the extraction stage returns no response, or a text that is no
\* JSON, process_single_resume_group returns (None, None, raw text, None) and
\* the scoring stage is not invoked for that resume.
C8_ExtractionFailureSkipsScoring ==
    (psg.pc = "return" /\ Called(ui.i + 1, "extract") /\ psg.resp1 \in AbsentOrUnparsable)
        => /\ psg.ret = <<None, None,
                          IF psg.resp1 = None THEN NoResponseExtract ELSE psg.resp1,
                          None>>
           /\ ~Called(ui.i + 1, "score")

\* The extraction stage returned a text that is no JSON and the function is
\* about to return.
C8_Witness ==
    /\ psg.pc = "return"
    /\ Called(ui.i + 1, "extract")
    /\ psg.resp1 = Text(<<Junk>>)

\* C9: when extraction succeeded and the scoring stage returns no response or a
\* text that is no JSON, process_single_resume_group returns the extracted
\* record unchanged together with the placeholder scored record.
C9_ScoringFailureYieldsPlaceholder ==
    (psg.pc = "return" /\ Called(ui.i + 1, "score") /\ psg.resp2 \in AbsentOrUnparsable)
        => /\ psg.ret[1] = DocOf(psg.resp1).doc
           /\ psg.ret[2] = JDict([score_percent |-> None,
                                  reasoning |-> JStr("Scoring failed"),
                                  matched_skills |-> JList(<<>>),
                                  missing_skills |-> JList(<<>>),
                                  overall_score_percent |-> None])
           /\ psg.ret[3] = psg.resp1

\* Extraction returned a fenced record, scoring returned a text that is no
\* JSON, and the function is about to return.
C9_Witness ==
    /\ psg.pc = "return"
    /\ Called(ui.i + 1, "score")
    /\ psg.resp1 = Text(<<FenceJson, Ws, Doc(ExtractedFull), Ws, Fence>>)
    /\ psg.resp2 = Text(<<Junk>>)

----------------------------------------------------------------------------
(* call_openai_assistant (assistants.py lines 67-115): one call, step by step.
   Every remote step either returns or raises; the clock counts the seconds
   since the run was submitted. *)

ASSISTANT_TIMEOUT_SECONDS == 180
PollSleep == 2
MessageLookback == 10

NoThread == "None"
PendingStatuses == {"queued", "in_progress", "cancelling"}
RunStatuses == PendingStatuses \cup {"completed", "requires_action", "failed", "cancelled", "expired"}

\* What a remote step can raise: the client's errors, all of class Exception.
RemoteErrors == {"APIConnectionError", "APIStatusError"}

\* Seconds one pass of the polling loop takes: the sleep, or a slow retrieve.
PollDurations == {PollSleep, ASSISTANT_TIMEOUT_SECONDS}
ClockCap == ASSISTANT_TIMEOUT_SECONDS + PollSleep
Min(a, b) == IF a < b THEN a ELSE b

\* Messages of a conversation, newest first.
TextPart(v) == [type |-> "text", value |-> v]
ImagePart == [type |-> "image_file"]
Msg(role, content) == [role |-> role, content |-> content]
UserMsg == Msg("user", <<TextPart("prompt")>>)
Conversations ==
    {<<>>,
     <<Msg("assistant", <<TextPart("reply")>>), UserMsg>>,
     <<UserMsg, Msg("assistant", <<TextPart("old reply")>>)>>,
     <<Msg("assistant", <<>>), Msg("assistant", <<ImagePart>>), Msg("assistant", <<TextPart("reply")>>)>>,
     <<Msg("assistant", <<ImagePart, TextPart("chart reply")>>), UserMsg, Msg("assistant", <<TextPart("old reply")>>)>>,
     [n \in 1..(MessageLookback + 1) |-> IF n <= MessageLookback THEN UserMsg ELSE Msg("assistant", <<TextPart("reply")>>)]}

\* A listing without the limit.
messages_list_unbounded(conversation) == conversation

\* Line 103: messages.list(order='desc', limit=10).
messages_list(conversation) == SubSeq(conversation, 1, Min(MessageLookback, Len(conversation)))

\* Line 105: the test a message has to pass.
is_assistant_text(msg) == msg.role = "assistant" /\ msg.content # <<>> /\ msg.content[1].type = "text"

\* Lines 104-108: the first listed message that passes, None when none does.
first_assistant_text(data) ==
    IF \E n \in DOMAIN data : is_assistant_text(data[n])
    THEN LET n == CHOOSE k \in DOMAIN data : is_assistant_text(data[k]) /\ \A j \in 1..(k - 1) : ~is_assistant_text(data[j])
         IN  JStr(data[n].content[1].value)
    ELSE None

\* A timeout test that never fires.
never_times_out(elapsed) == FALSE

\* Line 93: time.time() - start_time > config.ASSISTANT_TIMEOUT_SECONDS.
timed_out(elapsed) == elapsed > ASSISTANT_TIMEOUT_SECONDS

\* A clock restarted at every poll instead of at submission.
elapsed_since_last_poll(elapsed, d) == d

\* Lines 91, 93, 98: seconds since start_time after one more pass of d seconds.
elapsed_since_submission(elapsed, d) == Min(elapsed + d, ClockCap)

\* A status test that reads the messages of every run that stopped.
run_stopped(status) == status \notin PendingStatuses

\* Line 102: run.status == 'completed'.
run_completed(status) == status = "completed"

\* An except clause that lets everything through.
catches_nothing(e) == FALSE

\* Lines 96 and 113: "except Exception" catches every error of a remote step.
catches(e) == e \in RemoteErrors

NoOps == [threads_create |-> 0, messages_create |-> 0, runs_create |-> 0, retrieve |-> 0, cancel |-> 0, list |-> 0]

\* The state of a call that returned resp (lines 75, 97, 107-115).
returned(c, resp) == [c EXCEPT !.pc = "returned", !.ret = <<resp, c.thread_id>>]

\* A remote step raised e at the given step: line 113 catches it, or it leaves
\* the function.
on_exception(c, step, e) ==
    IF catches(e)
    THEN [returned(c, None) EXCEPT !.raised = e, !.failed_step = step]
    ELSE [c EXCEPT !.pc = "escaped", !.raised = e, !.failed_step = step]

InitCall ==
    /\ db = FreshStore
    /\ ready = [s \in Sessions |-> FALSE]
    /\ last = NoCall
    /\ ui = IdleUi
    /\ psg = IdlePsg
    /\ trace = IdleTrace
    /\ call = IdleCall

\* An entry test that looks at the client only.
client_missing(client, assistant_id, prompt) == ~client

\* Lines 74-76: the three fail-fast checks.
fails_fast(client, assistant_id, prompt) == ~client \/ assistant_id = "" \/ prompt = ""

\* Lines 67-76: entry and the three fail-fast checks.
CallEnter ==
    /\ call.pc = "idle"
    /\ \E client \in BOOLEAN, assistant_id \in {"", "asst_1"}, prompt \in {"", "p"}, thread_id \in {NoThread, "thread_0"} :
          LET c == [pc |-> "thread", client |-> client, assistant_id |-> assistant_id,
                    prompt |-> prompt, thread_id |-> thread_id, given_thread |-> thread_id,
                    status |-> "none", elapsed |-> 0, cancelled |-> FALSE, ops |-> NoOps,
                    raised |-> "", failed_step |-> "", conversation |-> <<>>, ret |-> <<>>]
          IN  call' = IF fails_fast(client, assistant_id, prompt)
                      THEN returned(c, None)
                      ELSE c
    /\ UNCHANGED <<db, ready, last, ui, psg, trace>>

\* Lines 80-82: no conversation given, threads.create.
CallThreadCreate ==
    /\ call.pc = "thread"
    /\ call.thread_id = NoThread
    /\ LET c == [call EXCEPT !.ops.threads_create = @ + 1]
       IN  \/ call' = [c EXCEPT !.pc = "run_create", !.thread_id = "thread_new"]
           \/ \E e \in RemoteErrors : call' = on_exception(c, "threads.create", e)
    /\ UNCHANGED <<db, ready, last, ui, psg, trace>>

\* Lines 83-85: a conversation was given, messages.create.
CallMessageAppend ==
    /\ call.pc = "thread"
    /\ call.thread_id # NoThread
    /\ LET c == [call EXCEPT !.ops.messages_create = @ + 1]
       IN  \/ call' = [c EXCEPT !.pc = "run_create"]
           \/ \E e \in RemoteErrors : call' = on_exception(c, "messages.create", e)
    /\ UNCHANGED <<db, ready, last, ui, psg, trace>>

\* Lines 89-91: runs.create, and the clock starts.
CallRunCreate ==
    /\ call.pc = "run_create"
    /\ LET c == [call EXCEPT !.ops.runs_create = @ + 1]
       IN  \/ \E st \in RunStatuses : call' = [c EXCEPT !.pc = "poll", !.status = st, !.elapsed = 0]
           \/ \E e \in RemoteErrors : call' = on_exception(c, "runs.create", e)
    /\ UNCHANGED <<db, ready, last, ui, psg, trace>>

\* Lines 92-93: the loop test and the timeout test.
CallPollCheck ==
    /\ call.pc = "poll"
    /\ call' = [call EXCEPT !.pc = IF call.status \notin PendingStatuses THEN "final"
                                   ELSE IF timed_out(call.elapsed) THEN "cancel"
                                   ELSE "retrieve"]
    /\ UNCHANGED <<db, ready, last, ui, psg, trace>>

\* Lines 94-97: the run timed out; cancel it, then return None whether or not
\* the cancellation raised.
CallCancel ==
    /\ call.pc = "cancel"
    /\ LET c == [call EXCEPT !.ops.cancel = @ + 1]
       IN  \/ call' = returned([c EXCEPT !.cancelled = TRUE], None)
           \/ \E e \in RemoteErrors :
                 call' = IF catches(e)
                         THEN [returned(c, None) EXCEPT !.raised = e, !.failed_step = "runs.cancel"]
                         ELSE on_exception(c, "runs.cancel", e)
    /\ UNCHANGED <<db, ready, last, ui, psg, trace>>

\* Line 98: sleep, then runs.retrieve.
CallRetrieve ==
    /\ call.pc = "retrieve"
    /\ \E d \in PollDurations :
          LET c == [call EXCEPT !.ops.retrieve = @ + 1, !.elapsed = elapsed_since_submission(@, d)]
          IN  \/ \E st \in RunStatuses : call' = [c EXCEPT !.pc = "poll", !.status = st]
              \/ \E e \in RemoteErrors : call' = on_exception(c, "runs.retrieve", e)
    /\ UNCHANGED <<db, ready, last, ui, psg, trace>>

\* Lines 102, 109-112: the final status; only completed goes on to the messages.
CallFinal ==
    /\ call.pc = "final"
    /\ call' = IF run_completed(call.status) THEN [call EXCEPT !.pc = "list"]
                                            ELSE returned(call, None)
    /\ UNCHANGED <<db, ready, last, ui, psg, trace>>

\* Lines 103-108: messages.list and the search for the reply.
CallList ==
    /\ call.pc = "list"
    /\ LET c == [call EXCEPT !.ops.list = @ + 1]
       IN  \/ \E conv \in Conversations :
                 call' = returned([c EXCEPT !.conversation = conv], first_assistant_text(messages_list(conv)))
           \/ \E e \in RemoteErrors : call' = on_exception(c, "messages.list", e)
    /\ UNCHANGED <<db, ready, last, ui, psg, trace>>

\* The caller has the result; the next call may start.
CallReturn ==
    /\ call.pc = "returned"
    /\ call' = IdleCall
    /\ UNCHANGED <<db, ready, last, ui, psg, trace>>

NextCall ==
    \/ CallEnter
    \/ CallThreadCreate
    \/ CallMessageAppend
    \/ CallRunCreate
    \/ CallPollCheck
    \/ CallCancel
    \/ CallRetrieve
    \/ CallFinal
    \/ CallList
    \/ CallReturn

SpecCall == InitCall /\ [][NextCall]_vars

\* Every remote call returns and the interpreter keeps running the function.
SpecCallFair == SpecCall /\ WF_vars(NextCall)

----------------------------------------------------------------------------
(* Claims about call_openai_assistant, checked under SpecCall *)

RemoteSteps == {"threads.create", "messages.create", "runs.create", "runs.retrieve", "runs.cancel", "messages.list"}

\* C10: call_openai_assistant never lets an exception escape: whichever remote
\* step fails (conversation creation, message append, run creation, status
\* retrieval, cancellation, message listing), the call returns an absent
\* response to its caller.
C10_NoExceptionEscapes ==
    /\ call.pc # "escaped"
    /\ (call.pc \notin {"idle", "returned"}) => call.raised = ""
    /\ (call.pc = "returned" /\ call.raised # "") =>
          /\ call.failed_step \in RemoteSteps
          /\ call.ret[1] = None

\* A status retrieval raised in the middle of the polling loop and the call
\* has returned.
C10_Witness ==
    /\ call.pc = "returned"
    /\ call.raised = "APIStatusError"
    /\ call.failed_step = "runs.retrieve"
    /\ call.ops.retrieve >= 2
    /\ call.ret = <<None, "thread_new">>

\* C11: if the run is still queued, in progress or cancelling at a poll check
\* where the time since submission exceeds the timeout, call_openai_assistant
\* attempts exactly one cancellation of the run and returns an absent response,
\* also when the cancellation attempt itself fails.
C11_TimeoutCancelsOnceAndReturnsAbsent ==
    [][/\ (call.pc = "poll" /\ call.status \in PendingStatuses /\ call.elapsed > ASSISTANT_TIMEOUT_SECONDS)
            => (call'.pc = "cancel" /\ call'.ops.cancel = 0)
       /\ call.pc = "cancel"
            => /\ call'.pc = "returned"
               /\ call'.ops.cancel = 1
               /\ call'.ret = <<None, call.thread_id>>
               /\ call'.ops.retrieve = call.ops.retrieve]_vars

\* The run was still in progress after the timeout, the cancellation raised,
\* and the call has returned.
C11_Witness ==
    /\ call.pc = "returned"
    /\ call.status = "in_progress"
    /\ call.elapsed > ASSISTANT_TIMEOUT_SECONDS
    /\ call.failed_step = "runs.cancel"
    /\ call.ops.cancel = 1
    /\ ~call.cancelled

\* The most polls one call can make: one every PollSleep seconds up to the
\* timeout, and the one that crosses it.
MaxPolls == (ASSISTANT_TIMEOUT_SECONDS \div PollSleep) + 1

\* C12: every call_openai_assistant call eventually returns, whatever statuses
\* the remote run reports (each remote call returning): the polling loop makes
\* a bounded number of status polls, at most one every 2 seconds until the
\* timeout measured from submission has elapsed.
C12_CallTerminates ==
    /\ [](call.pc \notin {"idle", "returned"} =>
            /\ PollSleep * call.ops.retrieve <= call.elapsed
            /\ call.ops.retrieve <= MaxPolls)
    /\ (call.pc = "thread") ~> (call.pc = "returned")

\* The run stayed pending through every one of the polls the timeout allows.
C12_Witness ==
    /\ call.pc = "returned"
    /\ call.ops.retrieve = MaxPolls
    /\ call.ops.cancel = 1

\* C13: call_openai_assistant returns a present response text only if the last
\* observed run status is completed; for failed, cancelled, expired and
\* requires_action it returns absent.
C13_ResponseOnlyWhenCompleted ==
    call.pc = "returned" =>
        /\ call.ret[1] # None => call.status = "completed"
        /\ call.status \in {"failed", "cancelled", "expired", "requires_action"} =>
              (call.ret[1] = None /\ call.ops.list = 0)

\* A poll observed requires_action and the call has returned.
C13_Witness ==
    /\ call.pc = "returned"
    /\ call.status = "requires_action"
    /\ call.ops.retrieve >= 1
    /\ call.raised = ""
    /\ call.ret[1] = None

----------------------------------------------------------------------------
(* Claims about get_text_for_pages and process_single_resume_group, checked
   under SpecPsg *)

Aggregated == psg.pc \in {"call_extract", "parse_extract", "call_score", "parse_score", "return"}
OcrData == ui.ocr_response_data
PageInRange(n) == n \in 1..Len(OcrData)
PageHasText(n) == OcrData[n] # None /\ \E k \in DOMAIN OcrData[n].toks : OcrData[n].toks[k].tok # "ws"

\* The positions in the text where a block begins, in order.
HeadPositions(toks) == {k \in DOMAIN toks : toks[k].tok \in {"start", "warn", "page_not_found", "ocr_empty"}}
HeadPosition(toks, m) == CHOOSE k \in HeadPositions(toks) : Cardinality({j \in HeadPositions(toks) : j < k}) = m - 1

\* The m-th block of the text is the block of the m-th requested page.
BlockIsFor(toks, m, n) ==
    LET at == HeadPosition(toks, m) IN
    IF PageInRange(n) /\ PageHasText(n)
    THEN /\ toks[at] = [tok |-> "start", n |-> n]
         /\ at + Len(OcrData[n].toks) + 1 <= Len(toks)
         /\ SubSeq(toks, at + 1, at + Len(OcrData[n].toks)) = OcrData[n].toks
         /\ toks[at + Len(OcrData[n].toks) + 1] = [tok |-> "end", n |-> n]
    ELSE IF PageInRange(n)
    THEN toks[at] = [tok |-> "warn", n |-> n]
    ELSE toks[at] = [tok |-> "page_not_found", n |-> n]

OneBlockPerPage(toks, pages) ==
    /\ Cardinality(HeadPositions(toks)) = Len(pages)
    /\ Cardinality({k \in DOMAIN toks : toks[k].tok = "end"}) = Cardinality({m \in DOMAIN pages : PageInRange(pages[m]) /\ PageHasText(pages[m])})
    /\ \A m \in DOMAIN pages : BlockIsFor(toks, m, pages[m])

\* C14, as stated: for every list of per-page texts and every list of requested
\* page numbers, get_text_for_pages returns a text with exactly one block per
\* requested page number, in the requested order: a Start/End block for an
\* in-range page with text, a warning marker for an in-range empty page, an
\* error marker for an out-of-range page.
C14_OneBlockPerPage_AsStated ==
    Aggregated => OneBlockPerPage(psg.combined_text.toks, psg.page_group)

\* C14, amended: the same for every non-empty list of per-page texts.  (For an
\* empty list the result is the single global error string, whatever pages are
\* requested.)
C14_OneBlockPerPage ==
    (Aggregated /\ Len(OcrData) > 0) => OneBlockPerPage(psg.combined_text.toks, psg.page_group)

\* Two pages, the first with text; page 1 and the out-of-range page 3 were
\* requested and the text has been aggregated.
C14_Witness ==
    /\ Aggregated
    /\ Len(OcrData) = 2
    /\ OcrData[1] = Text(<<Junk, Ws, Junk>>)
    /\ psg.page_group = <<1, 3>>

\* C15: when the per-page text collection is empty, get_text_for_pages returns
\* the single global error string whatever pages are requested, and
\* process_single_resume_group then returns (None, None, error text, None)
\* without invoking the extraction stage or the scoring stage.
C15_EmptyOcrAborts ==
    /\ \A pages \in PageLists : get_text_for_pages(<<>>, pages) = Text(<<[tok |-> "ocr_empty"]>>)
    /\ (psg.pc \notin {"idle", "raised", "aggregate"} /\ Len(OcrData) = 0) =>
          /\ psg.combined_text = Text(<<[tok |-> "ocr_empty"]>>)
          /\ psg.pc = "return"
          /\ psg.ret = <<None, None, JStr("Error: Failed valid text aggregation"), None>>
          /\ trace.calls = <<>>

\* The function was called with no per-page texts for pages 1 and 2 and is
\* about to return.
C15_Witness ==
    /\ psg.pc = "return"
    /\ OcrData = <<>>
    /\ psg.page_group = <<1, 2>>

----------------------------------------------------------------------------
(* Further claims about the job store, checked under Spec *)

\* C16: store_candidate_data called with a job id that references no existing
\* jobs row (never created, or already deleted) returns None without raising
\* and leaves the candidates table unchanged.
C16_DanglingStoreRejected ==
    [][(last'.op = "store_candidate_data" /\ (last.op # last'.op \/ last' # last) /\ ~last'.had_job)
          => (last'.ret = 0 /\ db' = db)]_vars

\* A store was attempted for a job that had been created and deleted, while
\* another job and a candidate of it exist.
C16_Witness ==
    /\ last.op = "store_candidate_data"
    /\ ~last.had_job
    /\ last.job_id \in 1..db.jobSeq
    /\ last.ret = 0
    /\ db.jobs # {}
    /\ db.candidates # {}

\* C17: delete_job_and_candidates called with a job id that does not exist
\* returns False without raising and leaves the jobs and candidates tables
\* unchanged.
C17_DeleteMissingJob ==
    [][(last'.op = "delete_job_and_candidates" /\ (last.op # last'.op \/ last' # last) /\ ~last'.had_job)
          => (last'.ret = FALSE /\ db' = db)]_vars

\* A delete was attempted for an id that names no job, while a job and a
\* candidate exist.
C17_Witness ==
    /\ last.op = "delete_job_and_candidates"
    /\ ~last.had_job
    /\ last.job_id # 0
    /\ last.ret = FALSE
    /\ db.jobs # {}
    /\ db.candidates # {}

JsonColumns == {"personal_information", "work_experience", "education", "skills", "certifications", "matched_skills", "missing_skills"}
StoredRows(id) == {c \in db.candidates : c["id"] = id}

\* C18: for every extracted and scored record passed to store_candidate_data
\* with an existing job id, a field among personal_information,
\* work_experience, education, skills, certifications, matched_skills,
\* missing_skills that is missing, null or not serialisable is stored as its
\* empty default and does not make the store fail; every such column of the
\* stored row is valid JSON.
C18_JsonColumnsDefaulted ==
    (last.op = "store_candidate_data" /\ last.had_job) =>
        /\ last.ret # 0
        /\ \A row \in StoredRows(last.ret) :
              /\ \A col \in JsonColumns : row[col].t = "text" /\ json_loads(row[col].toks).ok
              /\ \A col \in {"matched_skills", "missing_skills"} :
                    DictGet(last.assistant2_data, col, None) = None =>
                        row[col] = Text(<<[tok |-> "doc", doc |-> JList(<<>>)]>>)

----------------------------------------------------------------------------
(* Claims about reading the store back, checked under SpecLoad *)

\* The objects given as personal_information to rows that are still stored.
StoredObjects == {g \in trace.stored : IsDict(g.personal_information) /\ \E c \in db.candidates : c["id"] = g.id}
LoadedFor(id) == {k \in DOMAIN last.ret : last.ret[k]["id"] = id}

\* C19: round trip: for every candidate stored with a personal_information
\* object, load_candidates_for_job of its job yields for that candidate a
\* candidate_name equal to the object's full_name and an email equal to the
\* object's email.
C19_NameEmailRoundTrip ==
    last.op = "load_candidates_for_job" =>
        \A g \in StoredObjects :
            (\E c \in db.candidates : c["id"] = g.id /\ c["job_id"] = last.job_id) =>
                /\ Cardinality(LoadedFor(g.id)) = 1
                /\ \A k \in LoadedFor(g.id) :
                      /\ "full_name" \in DOMAIN g.personal_information.kv =>
                            last.ret[k]["candidate_name"] = g.personal_information.kv["full_name"]
                      /\ "email" \in DOMAIN g.personal_information.kv =>
                            last.ret[k]["email"] = g.personal_information.kv["email"]

\* Two candidates of one job, one stored with a full object and one with an
\* object whose full_name is null, have been loaded.
C19_Witness ==
    /\ last.op = "load_candidates_for_job"
    /\ Len(last.ret) = 2
    /\ \E g \in StoredObjects : g.personal_information = PersonalInfo /\ LoadedFor(g.id) # {}
    /\ \E g \in StoredObjects : g.personal_information = JDict([full_name |-> None]) /\ LoadedFor(g.id) # {}

----------------------------------------------------------------------------
(* Claims about init_db, checked under Spec *)

\* C20: the migration in init_db is all-or-nothing: if any step (rename,
\* create, copy, drop) fails, init_db raises and the store is left exactly as
\* before the migration started, with the original candidates table and all
\* its rows under its original name and no candidates_old_migration table.
C20_MigrationAllOrNothing ==
    [][(last'.op = "init_db" /\ last'.fault # "none")
          => /\ last'.raised
             /\ db.candSchema \in {"nofk", "noaction"}
             /\ db' = db
             /\ ~db'.oldMigration.exists]_vars

\* The drop step failed on a table without foreign key that held a row, and
\* the row is still in the table under its original schema.
C20_Witness ==
    /\ last.op = "init_db"
    /\ last.fault = "drop"
    /\ last.raised
    /\ db.candSchema = "nofk"
    /\ db.candidates # {}

----------------------------------------------------------------------------
(* Claims about start-up on an old store, checked under SpecMigrate *)

\* C21: for every pre-existing candidates table whose job_id foreign key is
\* missing or lacks cascade delete, whatever rows it holds, init_db completes
\* and the new candidates table contains every old row with its values in the
\* columns common to both schemas, and deleting a job afterwards removes its
\* candidates.
C21_MigrationKeepsEveryRow ==
    [][/\ (last'.op = "init_db" /\ last'.fault = "none" /\ db.candSchema \in {"nofk", "noaction"})
            => /\ ~last'.raised
               /\ db'.candSchema = "cascade"
               /\ \A r \in db.candidates : \E n \in db'.candidates :
                     \A c \in db.candCols \cap db'.candCols : n[c] = r[c]
       /\ (last'.op = "delete_job_and_candidates" /\ last'.had_job)
            => \A c \in db'.candidates : c["job_id"] # last'.job_id]_vars

----------------------------------------------------------------------------
(* Further claims about init_db, checked under Spec *)

\* C22: init_db is idempotent: run on a store whose candidates table already
\* declares the job_id foreign key with cascade delete, it performs no rename,
\* create, copy or drop and leaves every table and row unchanged; running
\* init_db twice leaves the same state as running it once.
C22_InitDbIdempotent ==
    /\ [][(last'.op = "init_db" /\ db.jobsTable /\ db.candSchema = "cascade")
             => (~last'.raised /\ ~last'.migrated /\ db' = db)]_vars
    /\ []((last.op = "init_db" /\ ~last.raised)
             => (init_db(db, "none") = [raised |-> FALSE, migrated |-> FALSE, db |-> db]))

\* init_db has run on a store that already had the cascade schema, a job and a
\* candidate, and has left them alone.
C22_Witness ==
    /\ last.op = "init_db"
    /\ ~last.migrated
    /\ ~last.raised
    /\ db.jobs # {}
    /\ db.candidates # {}

----------------------------------------------------------------------------
(* Claims about a fatal error in the batch loop *)

\* The loop stands before a group whose handling raises.
AboutToRaise ==
    /\ ui.current_step = 4 /\ psg.pc = "idle"
    /\ ui.i < Total
    /\ Len(ui.resume_page_groups[ui.i + 1]) = 0

\* Candidates the loop has stored so far, by row id.
StoredByLoop == {Disposed[k].rowid : k \in DOMAIN Disposed} \ {0}

\* C23: when an unexpected exception escapes the processing of page group gi
\* in the batch loop, no later group is processed, every candidate already
\* stored for the groups before gi remains in the store, the job row
\* remains, and the flow returns to the confirm-and-launch step with
\* processing no longer in progress.  Checked under SpecBatch.
C23_FatalErrorAbortsRun ==
    /\ [][AboutToRaise
            => /\ ui'.current_step = 3
               /\ ~ui'.processing_in_progress
               /\ ui'.i = ui.i
               /\ db' = db
               /\ trace' = trace]_vars
    /\ [](ui.error # ""
            => /\ ui.current_step = 3
               /\ ~ui.processing_in_progress
               /\ \A n \in DOMAIN trace.invoked : trace.invoked[n] <= ui.i
               /\ Len(Disposed) = ui.i
               /\ StoredByLoop \subseteq RowIds
               /\ \A c \in db.candidates : c["job_id"] = ui.current_job_id
               /\ ui.current_job_id \in JobIds(db))

\* The second group raised after the first had been stored.
C23_Witness ==
    /\ ui.error # ""
    /\ ui.i >= 1
    /\ ui.i < Total
    /\ StoredByLoop # {}

\* C24: a job holds at most one candidate per resume group: after any
\* sequence of confirm-and-launch runs, including resuming after a fatal
\* batch error by re-running create-job with the same name, no job has more
\* candidates rows for a page range than the batch has groups of that range.
\* Checked under SpecResume.
C24_OneCandidatePerGroup ==
    \A j \in JobIds(db) : \A g \in PageGroups \ {<<>>} :
        Cardinality({c \in db.candidates :
                        c["job_id"] = j /\ c["resume_page_range"] = page_range(g)})
          <= Cardinality({n \in DOMAIN ui.resume_page_groups :
                             ui.resume_page_groups[n] = g})

----------------------------------------------------------------------------
(* Further claims about call_openai_assistant, checked under SpecCall *)

\* C27: when the client is unavailable, or the stage identifier is empty, or
\* the prompt is empty, call_openai_assistant returns an absent response and
\* the conversation handle it was given, without creating a conversation,
\* appending a message or submitting a run.
C27_FailFast ==
    (call.pc # "idle" /\ (~call.client \/ call.assistant_id = "" \/ call.prompt = ""))
        => /\ call.pc = "returned"
           /\ call.ret = <<None, call.given_thread>>
           /\ call.ops = NoOps
           /\ call.raised = ""

\* A call with a conversation handle and an empty prompt has returned.
C27_Witness ==
    /\ call.pc = "returned"
    /\ call.client
    /\ call.assistant_id # ""
    /\ call.prompt = ""
    /\ call.given_thread = "thread_0"
    /\ call.ret = <<None, "thread_0">>
    /\ call.ops = NoOps

----------------------------------------------------------------------------
(* Further claims about reading the store back, checked under SpecLoad *)

\* Whether a score x may stand before a score y in descending order with the
\* null scores last.
MayPrecede(x, y) == IsNone(y) \/ (~IsNone(x) /\ x.n >= y.n)

\* C25: load_candidates_for_job(J) returns exactly the candidates rows whose
\* job_id is J, each carrying J's job name, ordered by score_percent
\* descending, ties broken by overall_score_percent descending, with null
\* scores after all non-null scores.
C25_LoadReturnsRowsOfJobInOrder ==
    last.op = "load_candidates_for_job" =>
        LET rows == {c \in db.candidates : c["job_id"] = last.job_id}
            ret == last.ret
        IN  /\ Len(ret) = Cardinality(rows)
            /\ \A c \in rows : \E k \in DOMAIN ret :
                  /\ \A col \in db.candCols : ret[k][col] = c[col]
                  /\ \E j \in db.jobs : j.job_id = last.job_id /\ ret[k]["job_name"] = j.job_name
            /\ \A k \in DOMAIN ret : \E c \in rows : ret[k]["id"] = c["id"]
            /\ \A a, b \in DOMAIN ret : a < b =>
                  /\ MayPrecede(ret[a]["score_percent"], ret[b]["score_percent"])
                  /\ ret[a]["score_percent"] = ret[b]["score_percent"] =>
                        MayPrecede(ret[a]["overall_score_percent"],
                                   ret[b]["overall_score_percent"])

\* Two candidates of one job were loaded, the one stored later first: it has
\* the higher fit score, or the same fit score and the higher overall score.
C25_Witness ==
    /\ last.op = "load_candidates_for_job"
    /\ Len(last.ret) = 2
    /\ last.ret[1]["id"] > last.ret[2]["id"]
    /\ ~IsNone(last.ret[2]["score_percent"])
    /\ ~IsNone(last.ret[2]["overall_score_percent"])
    /\ last.ret[1]["job_name"] = "B"

\* C26: for every stored row, if its personal_information text fails to parse
\* as JSON or parses to a non-object, load_candidates_for_job yields
\* candidate_name "N/A" and email "N/A" for that row, still returns the row
\* and all other rows, and does not raise.
C26_UnreadablePersonalInformation ==
    last.op = "load_candidates_for_job" =>
        LET rows == {c \in db.candidates : c["job_id"] = last.job_id} IN
        /\ Len(last.ret) = Cardinality(rows)
        /\ \A c \in rows :
              LET pi_json == c["personal_information"]
                  parsed == json_loads(pi_json.toks)
              IN  (~parsed.ok \/ ~IsDict(parsed.v)) =>
                     /\ Cardinality(LoadedFor(c["id"])) = 1
                     /\ \A k \in LoadedFor(c["id"]) :
                           /\ last.ret[k]["candidate_name"] = JStr("N/A")
                           /\ last.ret[k]["email"] = JStr("N/A")

\* A row whose column is no JSON and a row stored with an object were
\* loaded together.
C26_Witness ==
    /\ last.op = "load_candidates_for_job"
    /\ Len(last.ret) = 2
    /\ \E k \in DOMAIN last.ret : last.ret[k]["personal_information"] = Text(<<Junk>>)
    /\ \E k \in DOMAIN last.ret : last.ret[k]["candidate_name"] = JStr("Ann")

----------------------------------------------------------------------------
(* Further claims about the job store, checked under Spec *)

\* C28: a job row is immutable after creation: no operation other than
\* delete_job_and_candidates changes or removes an existing jobs row; in
\* particular create_job with an already existing name leaves that row's
\* source document name, description snippet and creation time unchanged.
C28_JobRowImmutable ==
    [][/\ \A j \in db.jobs :
            \/ j \in db'.jobs
            \/ /\ last'.op = "delete_job_and_candidates"
               /\ last'.job_id = j.job_id
               /\ \A k \in db'.jobs : k.job_id # j.job_id
       /\ (last'.op = "create_job" /\ \E j \in db.jobs : j.job_name = last'.job_name)
            => db'.jobs = db.jobs]_vars

\* create_job was called again for an existing name with another source
\* document, and the row still names the first one.
C28_Witness ==
    /\ last.op = "create_job"
    /\ last.previous # 0
    /\ last.ret = last.previous
    /\ \E j \in db.jobs : /\ j.job_id = last.ret
                          /\ j.job_name = last.job_name
                          /\ j.pdf_filename # last.pdf_filename

----------------------------------------------------------------------------
(* Claims about the order of a batch, checked under SpecOrder *)

\* The candidates of a store without their row ids.
StoredSet(d) == {[c \in DOMAIN row \ {"id"} |-> row[c]] : row \in d.candidates}

\* C29: given fixed stage outcomes per page group, the set of candidates
\* stored by a batch run and its stored and errored counts are the same for
\* every processing order of the page groups.
C29_OrderIndependent ==
    last.op = "batch_run" =>
        LET st == batch_run(ui.resume_page_groups, trace.outcome)
        IN  /\ StoredSet(db) = StoredSet(st.db)
            /\ last.ok = st.ok
            /\ last.err = st.err

----------------------------------------------------------------------------
(* Claims about the stage calls of a batch, checked under SpecBatch *)

\* The positions of trace.calls at which the given stage was called for the
\* resume at the given index of the batch.
CallsOf(group, stage) == {n \in DOMAIN trace.calls : trace.calls[n] = [group |-> group, stage |-> stage]}

\* C30: for each resume, process_single_resume_group invokes the extraction
\* stage at most once and the scoring stage at most once, never retries a
\* failed stage, and starts the scoring call only after the extraction call
\* has returned; within a batch at most one stage call is in flight at any
\* time: the calls of one resume are over before the next resume's begin.
C30_StagesOnceAndInSequence ==
    /\ \A g \in 1..Total :
          /\ Cardinality(CallsOf(g, "extract")) <= 1
          /\ Cardinality(CallsOf(g, "score")) <= 1
          /\ \A n \in CallsOf(g, "score") : n > 1 /\ (n - 1) \in CallsOf(g, "extract")
    /\ \A n \in DOMAIN trace.calls : trace.calls[n].group \in 1..Total
    /\ \A m, n \in DOMAIN trace.calls : m < n => trace.calls[m].group < trace.calls[n].group
                                                  \/ /\ trace.calls[m].group = trace.calls[n].group
                                                     /\ trace.calls[m].stage = "extract"
                                                     /\ trace.calls[n].stage = "score"
    /\ psg.pc = "call_score" => /\ CallsOf(ui.i + 1, "extract") # {}
                                /\ psg.resp1 # None
    /\ \A k \in DOMAIN Disposed :
          /\ Disposed[k].resp1 = None => Cardinality(CallsOf(k, "extract")) <= 1 /\ CallsOf(k, "score") = {}
          /\ Disposed[k].resp2 = None => Cardinality(CallsOf(k, "score")) <= 1

\* The scoring of the first resume and the extraction of the second got no
\* answer, and each stage was called once for them.
C30_Witness ==
    /\ Len(Disposed) = 2
    /\ Disposed[1].resp1 # None
    /\ Disposed[1].resp2 = None
    /\ Disposed[2].resp1 = None
    /\ trace.calls = <<[group |-> 1, stage |-> "extract"], [group |-> 1, stage |-> "score"],
                       [group |-> 2, stage |-> "extract"]>>

----------------------------------------------------------------------------
(* Further claims about process_single_resume_group, checked under SpecPsg *)

\* The function has returned at the aggregation step (lines 138-140).
AbortedAtAggregation ==
    /\ psg.pc = "return"
    /\ psg.ret = <<None, None, AggregationFailed, None>>
    /\ trace.calls = <<>>

\* C31: when a page group contains at least one in-range page with non-empty
\* text, an out-of-range or empty page in the same group only degrades the
\* aggregated text (a marker block for that page): process_single_resume_group
\* still proceeds to the extraction stage; it aborts at the aggregation step
\* only in the empty-collection (global error) case.
C31_DegradedPagesStillExtracted ==
    (Aggregated /\ \E m \in DOMAIN psg.page_group :
                      PageInRange(psg.page_group[m]) /\ PageHasText(psg.page_group[m]))
        => ~AbortedAtAggregation

----------------------------------------------------------------------------
(* The boundary-definition step of app.py (step 2) and the way back to it   *)
(* from the confirm step (step 3).  The page counters and the groups are    *)
(* fields of the session state.  The groups are followed up to             *)
(* MaxGroups + 1 of them and the page index up to one page past the end.    *)

\* list(range(a, b + 1))
page_span(a, b) == IF a <= b THEN [k \in 1..(b - a + 1) |-> a + k - 1] ELSE <<>>

\* The page numbers of all groups (the generator of line 374).
pages_of(groups) == UNION {{groups[g][k] : k \in DOMAIN groups[g]} : g \in DOMAIN groups}

\* Line 335: Next on the job description step enters the boundary step.
SplitUi(total_pages) ==
    [current_step |-> 2, total_pages |-> total_pages, current_page_index |-> 0,
     start_page_of_current_group |-> 1, resume_page_groups |-> <<>>,
     splitting_complete |-> FALSE, error |-> ""]

InitSplit ==
    /\ db = InitialisedStore
    /\ ready = [s \in Sessions |-> TRUE]
    /\ last = NoCall
    /\ \E total_pages \in 1..(MaxPages + 1) : ui = SplitUi(total_pages)
    /\ psg = IdlePsg
    /\ trace = IdleTrace
    /\ call = IdleCall

\* Line 349.
PrevPage ==
    /\ ui.current_step = 2
    /\ ui.current_page_index > 0
    /\ ui' = [ui EXCEPT !.current_page_index = @ - 1, !.error = ""]
    /\ UNCHANGED <<db, ready, last, psg, trace, call>>

\* Line 351.
NextPage ==
    /\ ui.current_step = 2
    /\ ui.current_page_index + 1 < ui.total_pages
    /\ ui' = [ui EXCEPT !.current_page_index = @ + 1, !.error = ""]
    /\ UNCHANGED <<db, ready, last, psg, trace, call>>

\* The counters after End Here or Skip (lines 355-356 and 361-362).
advance(u) ==
    LET cpi == u.current_page_index + 1 IN
    [u EXCEPT !.current_page_index = cpi,
              !.start_page_of_current_group = cpi + 1,
              !.splitting_complete = IF cpi >= u.total_pages THEN TRUE ELSE @,
              !.current_step = IF cpi >= u.total_pages THEN 3 ELSE @,
              !.error = ""]

\* Lines 353-357: End Here.  The group is appended first; the toast then
\* reads grp[0], which raises IndexError on an empty group and leaves the
\* counters as they were.
EndHere ==
    /\ ui.current_step = 2
    /\ Len(ui.resume_page_groups) < MaxGroups + 1
    /\ ui.current_page_index <= ui.total_pages
    /\ LET pg_num == ui.current_page_index + 1
           grp == page_span(ui.start_page_of_current_group, pg_num)
           appended == [ui EXCEPT !.resume_page_groups = Append(@, grp)]
       IN  ui' = IF Len(grp) = 0 THEN [appended EXCEPT !.error = "IndexError"]
                 ELSE advance(appended)
    /\ UNCHANGED <<db, ready, last, psg, trace, call>>

\* Lines 359-363: Skip.
SkipPage ==
    /\ ui.current_step = 2
    /\ ui.current_page_index <= ui.total_pages
    /\ ui' = advance(ui)
    /\ UNCHANGED <<db, ready, last, psg, trace, call>>

\* Line 347: Back to the job description step.
BackToJd ==
    /\ ui.current_step = 2
    /\ ui' = [ui EXCEPT !.current_step = 1, !.error = ""]
    /\ UNCHANGED <<db, ready, last, psg, trace, call>>

\* Line 335: Next on the job description step starts the boundary step afresh.
JdNext ==
    /\ ui.current_step = 1
    /\ ui' = SplitUi(ui.total_pages)
    /\ UNCHANGED <<db, ready, last, psg, trace, call>>

\* Line 374, which stands beside the if of line 373 and not under it: the
\* counters are set back behind the last grouped page.  max() of no pages
\* raises ValueError.
resume_splitting(u) ==
    IF pages_of(u.resume_page_groups) = {} THEN [u EXCEPT !.error = "ValueError"]
    ELSE LET last_pg == SetMax(pages_of(u.resume_page_groups))
             cpi == IF last_pg < u.total_pages - 1 THEN last_pg ELSE u.total_pages - 1
         IN  [u EXCEPT !.current_page_index = cpi,
                       !.start_page_of_current_group = cpi + 1,
                       !.splitting_complete = FALSE,
                       !.error = ""]

\* Lines 366-374: the confirm step is rendered with groups defined.
ConfirmRender ==
    /\ ui.current_step = 3
    /\ Len(ui.resume_page_groups) > 0
    /\ ui' = resume_splitting(ui)
    /\ UNCHANGED <<db, ready, last, psg, trace, call>>

\* Lines 373-374: Back on the confirm step.
ConfirmBack ==
    /\ ui.current_step = 3
    /\ Len(ui.resume_page_groups) > 0
    /\ ui' = resume_splitting([ui EXCEPT !.current_step = 2])
    /\ UNCHANGED <<db, ready, last, psg, trace, call>>

NextSplit ==
    \/ PrevPage
    \/ NextPage
    \/ EndHere
    \/ SkipPage
    \/ BackToJd
    \/ JdNext
    \/ ConfirmRender
    \/ ConfirmBack

SpecSplit == InitSplit /\ [][NextSplit]_vars

----------------------------------------------------------------------------
(* Claims about the boundary-definition step, checked under SpecSplit *)

Groups == ui.resume_page_groups

\* C32: after any sequence of Prev, Next, End Here, Skip and Back actions in
\* the boundary-definition step, every page group in resume_page_groups is a
\* non-empty list of consecutive ascending page numbers, all within
\* 1..total_pages.
C32_GroupsAreNonEmptyRuns ==
    \A g \in DOMAIN Groups :
        /\ Len(Groups[g]) > 0
        /\ \A k \in DOMAIN Groups[g] : Groups[g][k] \in 1..ui.total_pages
        /\ \A k \in 1..(Len(Groups[g]) - 1) : Groups[g][k + 1] = Groups[g][k] + 1

\* C33: after any sequence of Prev, Next, End Here, Skip and Back actions in
\* the boundary-definition step, the page groups in resume_page_groups are
\* pairwise disjoint and appear in ascending page order: no page number
\* belongs to two groups.
C33_GroupsDisjointAscending ==
    \A g, h \in DOMAIN Groups : g < h =>
        \A k \in DOMAIN Groups[g] : \A m \in DOMAIN Groups[h] : Groups[g][k] < Groups[h][m]

----------------------------------------------------------------------------
(* Claims about what process_single_resume_group hands back, checked under  *)
(* SpecPsg                                                                  *)

\* C34: process_single_resume_group returns a 4-tuple and never raises to the
\* batch loop, for every page group (including an empty one), every per-page
\* text list and every outcome of the two stage calls.
C34_AlwaysReturnsTuple ==
    /\ psg.pc # "raised"
    /\ psg.pc = "return" => Len(psg.ret) = 4

----------------------------------------------------------------------------
(* Further claims about the batch loop, checked under SpecBatch *)

\* C35: in every tuple returned by process_single_resume_group the scored
\* record is present if and only if the extracted record is present; hence
\* the batch loop's branch for "extracted present but scored absent" is
\* never taken.
C35_ScoredIffExtracted ==
    /\ psg.pc = "return" =>
          /\ IsNone(psg.ret[2]) <=> IsNone(psg.ret[1])
          /\ Truthy(psg.ret[2]) <=> Truthy(psg.ret[1])
    /\ \A k \in DOMAIN Disposed : Disposed[k].extracted => Disposed[k].store_called

\* The first resume was not extracted; the second was extracted, its scoring
\* answered no JSON, and the function is about to return the placeholder.
C35_Witness ==
    /\ Len(Disposed) = 1
    /\ ~Disposed[1].extracted
    /\ psg.pc = "return"
    /\ psg.resp2 = Text(<<Junk>>)
    /\ Truthy(psg.ret[1])
    /\ psg.ret[2] = Placeholder

\* C36: when the batch loop completes without an exception, the stored count
\* plus the errored count equals the number of page groups, and the stored
\* count equals the number of candidates rows written for the current job
\* during that run.
C36_CountsAddUp ==
    ui.current_step = 5 =>
        /\ ui.ok + ui.err = Total
        /\ ui.ok = Cardinality({c \in db.candidates : c["job_id"] = ui.current_job_id})
        /\ ui.ok = Cardinality(StoredByLoop)

\* A finished run of two resumes: one stored, one that store_candidate_data
\* was called for and did not store.
C36_Witness ==
    /\ ui.current_step = 5
    /\ Total = 2
    /\ ui.ok = 1
    /\ ui.err = 1
    /\ \E k \in DOMAIN Disposed : Disposed[k].store_called /\ Disposed[k].rowid = 0

----------------------------------------------------------------------------
(* Further frame claims about the job store, checked under Spec *)

\* C37: delete_job_and_candidates(J) changes nothing but J: every other jobs
\* row and every candidates row whose job_id differs from J is left
\* unchanged.
C37_DeleteTouchesOnlyItsJob ==
    [][last'.op = "delete_job_and_candidates"
          => /\ \A j \in db.jobs : j.job_id # last'.job_id => j \in db'.jobs
             /\ \A c \in db.candidates : c["job_id"] # last'.job_id => c \in db'.candidates
             /\ db'.jobs \subseteq db.jobs
             /\ db'.candidates \subseteq db.candidates
             /\ db'.jobSeq = db.jobSeq /\ db'.candSeq = db.candSeq
             /\ db'.candSchema = db.candSchema /\ db'.candCols = db.candCols]_vars

\* Job 1 and its candidate have been deleted; job 2 and its candidate are
\* still there.
C37_Witness ==
    /\ last.op = "delete_job_and_candidates"
    /\ last.job_id = 1
    /\ last.ret = TRUE
    /\ last.had_candidates > 0
    /\ 2 \in JobIds(db)
    /\ \E c \in db.candidates : c["job_id"] = 2

----------------------------------------------------------------------------
(* The results view and its cache (app.py).  st.cache_data keeps the value  *)
(* of cached_load_candidates_for_job for each job id it was called with;    *)
(* ui.cache is that memo, a set of [job_id, rows] entries.                  *)

EmptyCache == {}

\* Lines 56-59: the memoised loader.  [ret, cache].
cached_load_candidates_for_job(cache, d, job_id) ==
    IF \E e \in cache : e.job_id = job_id
    THEN [ret |-> (CHOOSE e \in cache : e.job_id = job_id).rows, cache |-> cache]
    ELSE LET rows == load_candidates_for_job(d, job_id)
         IN  [ret |-> rows, cache |-> cache \cup {[job_id |-> job_id, rows |-> rows]}]

ViewUi == [current_step |-> 0, selected_job_id |-> 0, cache |-> EmptyCache]

InitView ==
    /\ db = InitialisedStore
    /\ ready = [s \in Sessions |-> TRUE]
    /\ last = NoCall
    /\ ui = ViewUi
    /\ psg = IdlePsg
    /\ trace = IdleTrace
    /\ call = IdleCall

\* Lines 376-409 for a batch of one resume, with whatever the two stages
\* produced for it: the job is created or found by name, the candidate is
\* stored, and the run ends on the results step with the job selected.  No
\* cache is touched.
FinishRun ==
    /\ db.candSeq < MaxCands
    /\ \E job_name \in JobNames, extracted \in ExtractedSamples, scored \in ScoredSamples :
        /\ (\E j \in db.jobs : j.job_name = job_name) \/ db.jobSeq < MaxJobs
        /\ LET j == create_job(db, job_name, "one.pdf", "jd...")
               r == store_candidate_data(j.db, j.ret, <<1>>, JStr("jd"), extracted,
                                         scored, RawExtract, RawScore)
           IN  /\ db' = r.db
               /\ ui' = [ui EXCEPT !.current_step = 5, !.selected_job_id = j.ret]
               /\ last' = [op |-> "run", job_id |-> j.ret, rowid |-> r.ret]
    /\ UNCHANGED <<ready, psg, trace, call>>

\* Lines 82-89, called at lines 290 and 417: the results of the selected job
\* are rendered from the memoised loader.
RenderResults ==
    /\ ui.selected_job_id # 0
    /\ LET r == cached_load_candidates_for_job(ui.cache, db, ui.selected_job_id) IN
       /\ ui' = [ui EXCEPT !.cache = r.cache]
       /\ last' = [op |-> "render", job_id |-> ui.selected_job_id, shown |-> r.ret]
    /\ UNCHANGED <<db, ready, psg, trace, call>>

\* Lines 284-288: Confirm Delete in the history view.
HistoryDelete ==
    /\ ui.selected_job_id # 0
    /\ LET r == delete_job_and_candidates(db, ui.selected_job_id) IN
       /\ db' = r.db
       /\ ui' = IF r.ret THEN [ui EXCEPT !.cache = EmptyCache, !.selected_job_id = 0]
                ELSE ui
       /\ last' = [op |-> "history_delete", job_id |-> ui.selected_job_id, ret |-> r.ret]
    /\ UNCHANGED <<ready, psg, trace, call>>

\* Lines 212-214: Clear Cache & Reload.
ClearCache ==
    /\ ui' = [ui EXCEPT !.cache = EmptyCache]
    /\ last' = [op |-> "clear_cache"]
    /\ UNCHANGED <<db, ready, psg, trace, call>>

NextView ==
    \/ FinishRun
    \/ RenderResults
    \/ HistoryDelete
    \/ ClearCache

SpecView == InitView /\ [][NextView]_vars

----------------------------------------------------------------------------
(* Claims about the results view, checked under SpecView *)

\* C38: whenever the results view is rendered for job J, the candidate list
\* it shows equals the candidates currently stored for J: every store of a
\* candidate into J and every delete of J is followed by an invalidation of
\* the cached candidate list before the next render.
C38_RenderShowsStoredCandidates ==
    last.op = "render" => last.shown = load_candidates_for_job(db, last.job_id)

----------------------------------------------------------------------------
(* The reply of a completed run, checked under SpecCall *)

\* C39, as stated: on completed status, call_openai_assistant returns the text
\* of the newest message, among the 10 most recent messages of the
\* conversation, that is authored by the assistant role and has textual
\* content; it returns absent if no such message is among those 10.
C39_NewestAssistantText_AsStated ==
    (call.pc = "returned" /\ call.ops.list = 1 /\ call.raised = "") =>
        LET conv == call.conversation
            recent == 1..Min(MessageLookback, Len(conv))
            text_parts(n) == {k \in DOMAIN conv[n].content : conv[n].content[k].type = "text"}
            has_text(n) == conv[n].role = "assistant" /\ text_parts(n) # {}
        IN  IF \E n \in recent : has_text(n)
            THEN \E n \in recent :
                    /\ has_text(n)
                    /\ \A j \in 1..(n - 1) : ~has_text(j)
                    /\ \E k \in text_parts(n) : call.ret[1] = JStr(conv[n].content[k].value)
            ELSE call.ret[1] = None

\* C39, amended: on completed status, call_openai_assistant returns the text
\* of the first content part of the newest message, among the 10 most recent
\* messages of the conversation, that is authored by the assistant role and
\* whose first content part is text; a message whose text follows another
\* part is passed over like one without text.  It returns absent if no such
\* message is among those 10, or if listing the messages fails.
C39_NewestAssistantText ==
    (call.pc = "returned" /\ call.ops.list = 1) =>
        LET conv == call.conversation
            recent == 1..Min(MessageLookback, Len(conv))
            text_first(n) == /\ conv[n].role = "assistant"
                             /\ Len(conv[n].content) >= 1
                             /\ conv[n].content[1].type = "text"
        IN  /\ call.status = "completed"
            /\ call.raised # "" => call.ret[1] = None
            /\ (call.raised = "" /\ call.ret[1] = None) => \A n \in recent : ~text_first(n)
            /\ call.ret[1] # None =>
                  \E n \in recent :
                     /\ text_first(n)
                     /\ \A j \in 1..(n - 1) : ~text_first(j)
                     /\ call.ret[1] = JStr(conv[n].content[1].value)

\* The newest message is the assistant's, an image followed by text; the call
\* has passed it over and returned the older reply.
C39_Witness ==
    /\ call.pc = "returned"
    /\ call.status = "completed"
    /\ call.ops.list = 1
    /\ call.raised = ""
    /\ Len(call.conversation) = 3
    /\ call.conversation[1].role = "assistant"
    /\ Len(call.conversation[1].content) = 2
    /\ call.ret[1] = JStr("old reply")

====
